---- MODULE Spec2Model ----
(***************************************************************************)
(* Model of oio/rdir/client.py (OpenIO SDS).                               *)
(*                                                                         *)
(*   RdirDispatcher : get_assignments, assign_services, _smart_link_rdir,  *)
(*                    _poll_rdir                                           *)
(*   RdirClient     : _clear_cache, _get_rdir_addr, _rdir_request, create, *)
(*                    chunk_fetch                                          *)
(*                                                                         *)
(* The conscience (cluster membership gateway), the directory (service     *)
(* directory gateway) and the rdir HTTP servers are external: every call   *)
(* to them is answered by a nondeterministic choice among the answers the  *)
(* service can give.  Python's None / a missing dict key is modelled by    *)
(* the empty sequence << >> and a present value x by << x >>.              *)
(***************************************************************************)
EXTENDS Integers, Sequences, FiniteSets, TLC

-----------------------------------------------------------------------------
(* Bounds of the model *)

\* highest explicit max_per_rdir of a whole call
MaxCap == 1
\* number of non-empty pages an rdir serves to one chunk_fetch
MaxPages == 2
\* the limit argument of chunk_fetch: the highest number of records in a page
\* served from rdir_db
FetchLimit == 2
\* where only the selection is explored: the highest stat.opened_db_count the
\* conscience reports, and the highest explicit max_per_rdir
SelMaxLoad == 6
SelMaxCap == 3

-----------------------------------------------------------------------------
(* Program constants *)

\* _smart_link_rdir(..., max_attempts=7, ...)
max_attempts == 7
\* chunk_fetch(..., max_attempts=3, ...)
fetch_max_attempts == 3
\* status of a poll the pool cannot satisfy ("no candidate")
StatusNoCandidate == 481
\* status of a poll on a pool that does not exist
StatusBadRequest == 400
\* "Already done"
StatusAlreadyDone == 455

NS == "OPENIO"
RDIR_ACCT == "_RDIR"
JOKER_SVC_TARGET == "__any_slot"
OpenedDbCount == "stat.opened_db_count"
ServiceIdTag == "tag.service_id"

-----------------------------------------------------------------------------
(* Optional values and dicts *)

None == << >>
Some(x) == << x >>
IsNone(o) == o = << >>
Val(o) == o[1]

\* dict.get(key, default)
DictGet(d, key, default) == IF key \in DOMAIN d THEN d[key] ELSE default
EmptyDict == [k \in {} |-> 0]
DictSet(d, key, v) == [k \in (DOMAIN d) \cup {key} |-> IF k = key THEN v ELSE d[k]]

\* "%s|%s|%s" % (ns, type_, addr)
_make_id(ns, type_, addr) == << ns, type_, addr >>

RECURSIVE SumSeq(_)
SumSeq(s) == IF s = << >> THEN 0 ELSE Head(s) + SumSeq(Tail(s))

RECURSIVE SetToSeq(_)
\* a set of integers listed in increasing order
SetToSeq(S) ==
    IF S = {} THEN << >>
    ELSE LET m == CHOOSE x \in S : \A y \in S : x <= y
         IN  << m >> \o SetToSeq(S \ {m})

-----------------------------------------------------------------------------
(* Exceptions: a class name, the status of the error (0 when the class    *)
(* carries none) and the message, of which only the prefix matters.        *)

Exc(t, s, m) == [type |-> t, status |-> s, message |-> m]

\* a message is the sequence of its parts
MsgAlready0 == << "META1 error: (SQLITE_CONSTRAINT) ", "UNIQUE constraint failed" >>
MsgAlready1 == << "META1 error: (SQLITE_CONSTRAINT) ", "columns cid, srvtype, seq are not unique" >>
MsgOther == << "other" >>

ClientError(s) == Exc("ClientException", s, MsgOther)
NetworkError == Exc("OioNetworkException", 0, MsgOther)
NoRdirService == Exc("ServiceUnavailable", 0, << "No rdir service found in " >>)
NoValidRdirService == Exc("ServiceUnavailable", 0, << "No valid rdir service found in " >>)
IncoherentResult == Exc("ServerException", 0, << "LB returned incoherent result: " >>)
NotFoundError == Exc("NotFound", 404, MsgOther)

\* except ClientException
IsClientException(e) == e.type \in {"ClientException", "NotFound"}
\* except NotFound
IsNotFound(e) == e.type = "NotFound"
\* except OioNetworkException
IsNetworkException(e) == e.type = "OioNetworkException"
\* except OioException
IsOioException(e) ==
    e.type \in {"ClientException", "NotFound", "ServiceUnavailable", "ServerException",
                "OioNetworkException", "VolumeException", "OioException"}

\* str.startswith on messages, a message being the sequence of its parts
StartsWith(m, prefix) ==
    /\ Len(m) >= Len(prefix)
    /\ SubSeq(m, 1, Len(prefix)) = prefix

Ret(v) == [ok |-> TRUE, val |-> v]
Raise(e) == [ok |-> FALSE, exc |-> e]

-----------------------------------------------------------------------------
(* Pure parts of the code *)

\* for srv in allsrv.get('srv', {}): if srv['type'] == 'rdir': return srv['host']
_filter_rdir_host(allsrv) ==
    LET at == {k \in 1..Len(allsrv) : allsrv[k].type = "rdir"}
    IN  IF at = {} THEN Raise(NotFoundError)
        ELSE Ret(allsrv[CHOOSE k \in at : \A j \in at : k <= j].host)

\* provider['tags'].get('tag.service_id', provider['addr'])
ProviderId(provider) == DictGet(provider.tags, ServiceIdTag, provider.addr)

\* x['tags'].get('stat.opened_db_count', 0)
Load(x) == DictGet(x.tags, OpenedDbCount, 0)

\* the rdir services with x['score'] > 0, in list order
HealthyHosts(rdirs) == {h \in DOMAIN rdirs : rdirs[h].score > 0}

\* opened_db = [x['tags'].get('stat.opened_db_count', 0) for x in all_rdir if x['score'] > 0]
opened_db(rdirs) ==
    LET hs == SetToSeq(HealthyHosts(rdirs))
    IN  [k \in 1..Len(hs) |-> Load(rdirs[hs[k]])]

\* "not max_per_rdir": None and 0 are both false
NoCap(cap) == IsNone(cap) \/ Val(cap) = 0

\* upper_limit, a rational num/den: sum(opened_db) / float(len(opened_db)) or max_per_rdir - 1
upper_limit_of(opened, cap) ==
    IF NoCap(cap)
    THEN [num |-> SumSeq(opened), den |-> Len(opened)]
    ELSE [num |-> Val(cap) - 1,   den |-> 1]

\* load > upper_limit
Exceeds(load, limit) == load * limit.den > limit.num

\* the avoid list built with >= instead of >
avoids_of_Inclusive(rdirs, limit) ==
    { _make_id(NS, "rdir", rdirs[h].addr) :
        h \in {x \in DOMAIN rdirs : rdirs[x].score > 0
                                     /\ Load(rdirs[x]) * limit.den >= limit.num} }

\* the avoid list built against upper_limit + 1
avoids_of_AboveCap(rdirs, limit) ==
    { _make_id(NS, "rdir", rdirs[h].addr) :
        h \in {x \in DOMAIN rdirs : rdirs[x].score > 0
                                     /\ Load(rdirs[x]) * limit.den > limit.num + limit.den} }

\* avoids = [_make_id(ns, "rdir", x['addr']) for x in all_rdir
\*           if x['score'] > 0 and load(x) > upper_limit]
avoids_of(rdirs, limit) ==
    { _make_id(NS, "rdir", rdirs[h].addr) :
        h \in {x \in DOMAIN rdirs : rdirs[x].score > 0 /\ Exceeds(Load(rdirs[x]), limit)} }

\* the retry made whatever max_per_rdir is
RetryWithoutAvoids_IgnoringCap(exc, cap) ==
    /\ IsClientException(exc)
    /\ exc.status = StatusNoCandidate

\* the handler around the first _poll_rdir: "if exc.status != 481 or max_per_rdir: raise"
RetryWithoutAvoids(exc, cap) ==
    /\ IsClientException(exc)
    /\ ~(exc.status # StatusNoCandidate \/ ~NoCap(cap))

\* the pool created on every status-coded failure of the poll
CreatePoolOn_AnyStatus(exc) == IsClientException(exc)

\* the handler around cs.poll in _poll_rdir: "if exc.status != 400: raise"
CreatePoolOn(exc) ==
    /\ IsClientException(exc)
    /\ exc.status = StatusBadRequest

\* 'rdir' in svc['id']
IsRdirSvc(svc) == svc.id[2] = "rdir"

\* for svc in svcs: if 'rdir' in svc['id']: return svc ; raise ServerException
FirstRdirSvc(svcs) ==
    LET at == {k \in 1..Len(svcs) : IsRdirSvc(svcs[k])}
    IN  IF at = {} THEN Raise(IncoherentResult)
        ELSE Ret(svcs[CHOOSE k \in at : \A j \in at : k <= j])

retry == {406, 450, 503, 504}
done == {StatusAlreadyDone}

\* the force loop with 504 left out of the retriable statuses
ForceHandler_No504(ex, i) ==
    IF ~IsClientException(ex) THEN "raise"
    ELSE IF ex.status \in done THEN "break"
    ELSE IF StartsWith(ex.message, MsgAlready0) THEN "break"
    ELSE IF StartsWith(ex.message, MsgAlready1) THEN "break"
    ELSE IF ex.status >= 400 /\ ex.status \notin {406, 450, 503} THEN "raise"
    ELSE IF i < max_attempts - 1 THEN "retry"
    ELSE "raise"

\* the force loop without the test of the second "already linked" message
ForceHandler_NoAlready1(ex, i) ==
    IF ~IsClientException(ex) THEN "raise"
    ELSE IF ex.status \in done THEN "break"
    ELSE IF StartsWith(ex.message, MsgAlready0) THEN "break"
    ELSE IF ex.status >= 400 /\ ex.status \notin retry THEN "raise"
    ELSE IF i < max_attempts - 1 THEN "retry"
    ELSE "raise"

\* the force loop raising at once on the server errors only
ForceHandler_FatalRetried(ex, i) ==
    IF ~IsClientException(ex) THEN "raise"
    ELSE IF ex.status \in done THEN "break"
    ELSE IF StartsWith(ex.message, MsgAlready0) THEN "break"
    ELSE IF StartsWith(ex.message, MsgAlready1) THEN "break"
    ELSE IF ex.status >= 500 /\ ex.status \notin retry THEN "raise"
    ELSE IF i < max_attempts - 1 THEN "retry"
    ELSE "raise"

\* what the except clause of the force loop does with exception ex at attempt i:
\* "break", "raise" or "retry" (sleep(i * 1.0) then continue)
ForceHandler(ex, i) ==
    IF ~IsClientException(ex) THEN "raise"
    ELSE IF ex.status \in done THEN "break"
    ELSE IF StartsWith(ex.message, MsgAlready0) THEN "break"
    ELSE IF StartsWith(ex.message, MsgAlready1) THEN "break"
    ELSE IF ex.status >= 400 /\ ex.status \notin retry THEN "raise"
    ELSE IF i < max_attempts - 1 THEN "retry"
    ELSE "raise"

\* sleep(i * 1.0)
Backoff(i) == i * 1

\* group_chunk_errors: the collected (id, error) pairs grouped by error
\* signature (class and status), each group listing its ids in order
ErrorSignature(e) == [type |-> e.type, status |-> e.status]

group_chunk_errors(errs) ==
    [sig \in {ErrorSignature(errs[k].exc) : k \in 1..Len(errs)} |->
        LET at == {k \in 1..Len(errs) : ErrorSignature(errs[k].exc) = sig}
            ks == SetToSeq(at)
        IN  [j \in 1..Len(ks) |-> errs[ks[j]].id]]

SeveralErrors == Exc("OioException", 0, << "Several errors encountered: " >>)

Returned(v) == [kind |-> "return", exc |-> None, groups |-> None, val |-> Some(v)]
Raised(e, g) == [kind |-> "raise", exc |-> Some(e), groups |-> g, val |-> None]

\* the end of assign_services testing the number of errors before they are grouped
assign_outcome_Ungrouped(errs, services) ==
    IF errs # << >>
    THEN LET grouped == group_chunk_errors(errs)
         IN  IF Len(errs) = 1
             THEN LET err == CHOOSE sig \in DOMAIN grouped : TRUE
                  IN  Raised(Exc(err.type, err.status, << "reraised" >>), Some(grouped))
             ELSE Raised(SeveralErrors, Some(grouped))
    ELSE Returned(services)

\* the end of assign_services: "if errors: ... return all_services"
assign_outcome(errs, services) ==
    IF errs # << >>
    THEN LET grouped == group_chunk_errors(errs)
         IN  IF Cardinality(DOMAIN grouped) = 1
             THEN LET err == CHOOSE sig \in DOMAIN grouped : TRUE
                  IN  Raised(Exc(err.type, err.status, << "reraised" >>), Some(grouped))
             ELSE Raised(SeveralErrors, Some(grouped))
    ELSE Returned(services)

-----------------------------------------------------------------------------
(* The services the gateways know *)

\* the addresses of the rdir services the conscience can report
RdirHosts == {1, 2}
\* an rdir that is linked in the directory but unknown to the conscience
DownHost == Cardinality(RdirHosts) + 1

\* the k-th service of the batch; every second one carries a service id
Volume(k) ==
    [addr |-> k,
     tags |-> IF k % 2 = 0 THEN (ServiceIdTag :> (k + 100)) ELSE EmptyDict]

\* cs.all_services(service_type): a batch of two services
Batch == << Volume(1), Volume(2) >>

VolIds == {ProviderId(Batch[k]) : k \in 1..Len(Batch)}

RdirRecord(h, score, tags) ==
    [addr |-> h, id |-> _make_id(NS, "rdir", h), score |-> score, tags |-> tags]

\* the tag maps of an rdir in a whole call: no counter, or a counter of 1
LoadTags == {EmptyDict, (OpenedDbCount :> 1)}

\* the answers cs.all_services('rdir', True) can give: no rdir at all, or every
\* host, down (score 0, no counter) or up with one of the tag maps
Fleets(hosts, tagsets) ==
    UNION { [K -> {<< 0, EmptyDict >>} \cup ({1} \X tagsets)] : K \in {{}, hosts} }

FleetOf(f) == [h \in DOMAIN f |-> RdirRecord(h, f[h][1], f[h][2])]

\* the values of max_per_rdir: None, or an explicit cap
Caps == {None} \cup {Some(m) : m \in 0..MaxCap}

\* the fleets and caps the selection is explored with: three rdirs, up or down,
\* without counter or with a counter of 0..SelMaxLoad; no cap or a cap of 0..SelMaxCap
SelHosts == {1, 2, 3}
SelLoadTags == {EmptyDict} \cup {(OpenedDbCount :> l) : l \in 0..SelMaxLoad}
SelFleets == [SelHosts -> {0, 1} \X SelLoadTags]
SelCaps == {None} \cup {Some(m) : m \in 0..SelMaxCap}

-----------------------------------------------------------------------------
VARIABLES
    \* the gateways
    cs_rdir,        \* conscience: the rdir services, host -> record
    cs_services,    \* conscience: the services of service_type, a list
    rdir_db,        \* rdir servers: None when a fetch is answered with any page, else the
                    \* chunks held for every volume, served after the cursor in key order
    dirLink,        \* directory: reference -> linked rdir host, or None
    \* RdirDispatcher.assign_services / get_assignments
    pc,             \* position of the dispatcher
    max_per_rdir,   \* the argument of assign_services
    all_services,
    all_rdir,       \* the dispatcher's copy of the rdir records (mutated in place)
    by_id,          \* id -> handle of the record: <<"rdir", host>> or <<"placeholder", host>>
    idx,            \* position in "for provider in all_services"
    attached,       \* provider['rdir'] of each service: None or the handle
    errors,         \* list of [id, exc]
    result,         \* None while running, then Returned(..) / Raised(..)
    lookups,        \* the directory lookups of the batch: list of [id, outcome]
    link_calls,     \* the ids _smart_link_rdir was called for, in order
    \* RdirDispatcher._smart_link_rdir / _poll_rdir
    volume_id,
    upper_limit,
    avoids,
    phase,          \* 1: poll with avoids, 2: retry without avoids
    ptry,           \* cs.poll number inside the current _poll_rdir
    polled,
    i,              \* attempt index of the force loop
    link_out,       \* None, or what _smart_link_rdir returned / raised
    \* what the current _smart_link_rdir call has sent so far
    polls,          \* the cs.poll calls: list of [avoid, known, try, answer]
    pools,          \* the create_pool calls: list of target lists
    forces,         \* the number of directory.force calls
    force_last,     \* None, or the answer to the last directory.force
    sleeps,         \* the delays slept
    creates,        \* the number of rdir.create calls
    create_last,    \* the outcome of the last rdir.create call, None before it
    \* RdirClient
    addr_cache,     \* self._addr_cache: volume -> host or None
    \* what the callers of the RdirClient have observed
    netfailed,      \* volume -> None, or the host whose request failed on the network and
                    \* after which the address of the volume has not been resolved again
    req_log,        \* None, or the last _rdir_request: its volume, the directory answer,
                    \* what it resolved and what it raised
    \* the chunk_fetch generators
    active,         \* the generators that are called
    fetch           \* generator -> its locals and what it has received and yielded

envVars == << cs_rdir, cs_services, rdir_db >>
batchVars == << max_per_rdir, all_services, all_rdir, by_id, idx, attached, errors, result,
               lookups, link_calls >>
clientVars == << netfailed, req_log, active, fetch >>
linkVars == << volume_id, upper_limit, avoids, phase, ptry, polled, i, link_out >>
sentVars == << polls, pools, forces, force_last, sleeps, creates, create_last >>
vars == << cs_rdir, cs_services, rdir_db, dirLink, pc, max_per_rdir, all_services, all_rdir,
           by_id, idx, attached, errors, result, lookups, link_calls, volume_id,
           upper_limit, avoids,
           phase, ptry, polled, i, link_out, polls, pools, forces, force_last, sleeps,
           creates, create_last,
           addr_cache, netfailed, req_log, active, fetch >>

NoLimit == [num |-> 0, den |-> 1]

\* the chunk_fetch generators that can exist
Fetchers == {1, 2}

\* a generator that has not been called: no local has a value
NotCalled ==
    [pc |-> "idle", volume |-> None, start_after |-> None, i |-> 0, resp_body |-> << >>,
     pos |-> 0, yielded |-> << >>, raised |-> None,
     pages |-> << >>, asked |-> << >>, attempts |-> << >>, sleeps |-> << >>]

\* the state after RdirDispatcher.__init__ (which builds its RdirClient), before any call
InitDispatcher ==
    /\ pc = "idle"
    /\ all_services = << >>
    /\ all_rdir = << >>
    /\ by_id = << >>
    /\ idx = 0
    /\ attached = << >>
    /\ errors = << >>
    /\ result = None
    /\ lookups = << >>
    /\ link_calls = << >>
    /\ volume_id = None
    /\ upper_limit = NoLimit
    /\ avoids = {}
    /\ phase = 0
    /\ ptry = 0
    /\ polled = None
    /\ i = 0
    /\ link_out = None
    /\ polls = << >>
    /\ pools = << >>
    /\ forces = 0
    /\ force_last = None
    /\ sleeps = << >>
    /\ creates = 0
    /\ create_last = None
    /\ addr_cache = [v \in VolIds |-> None]
    /\ netfailed = [v \in VolIds |-> None]
    /\ req_log = None
    /\ fetch = [f \in Fetchers |-> NotCalled]

\* the links the directory holds at the start: no service is linked, or the
\* first one is linked to a known rdir, or the second one to a down rdir
InitLinks ==
    {[v \in VolIds |-> None],
     [v \in VolIds |-> IF v = ProviderId(Batch[1]) THEN Some(1) ELSE None],
     [v \in VolIds |-> IF v = ProviderId(Batch[2]) THEN Some(DownHost) ELSE None]}

Init ==
    /\ InitDispatcher
    /\ active = {}
    /\ rdir_db = None
    /\ max_per_rdir \in Caps
    /\ \E f \in Fleets(RdirHosts, LoadTags) : cs_rdir = FleetOf(f)
    /\ cs_services = Batch
    /\ dirLink \in InitLinks

-----------------------------------------------------------------------------
(* Answers of the directory *)

SrvRdir(h) == [type |-> "rdir", host |-> h]
SrvOther == [type |-> "meta2", host |-> 0]

\* directory.list(RDIR_ACCT, ref, service_type='rdir') for a reference whose
\* link is `link`: the services listed, NotFound, or another error
DirectoryList(link) ==
    (IF IsNone(link)
     THEN {Raise(NotFoundError), Ret(<< >>)}
     ELSE {Ret(<< SrvRdir(Val(link)) >>), Ret(<< SrvOther, SrvRdir(Val(link)) >>)})
    \cup {Raise(ClientError(503)), Raise(NetworkError)}

\* the lookup of both dispatch loops: directory.list then _filter_rdir_host
Lookup(resp) == IF resp.ok THEN _filter_rdir_host(resp.val) ELSE resp

-----------------------------------------------------------------------------
(* RdirDispatcher.assign_services *)

\* the start of assign_services without the test of the number of rdir services
assign_start_NoFailFast ==
    /\ pc = "idle"
    /\ all_services' = cs_services
    /\ all_rdir' = cs_rdir
    /\ by_id' = [id \in {_make_id(NS, "rdir", cs_rdir[h].addr) : h \in DOMAIN cs_rdir}
                    |-> << "rdir", id[3] >>]
    /\ errors' = << >>
    /\ idx' = 1
    /\ attached' = [k \in 1..Len(cs_services) |-> None]
    /\ result' = None
    /\ pc' = "lookup"
    /\ UNCHANGED << envVars, dirLink, max_per_rdir, lookups, link_calls, linkVars, sentVars,
                    addr_cache, clientVars >>

\* lines 104-112: the two listings, the fail-fast test, by_id and errors
assign_start ==
    /\ pc = "idle"
    /\ all_services' = cs_services
    /\ all_rdir' = cs_rdir
    /\ IF Cardinality(DOMAIN cs_rdir) <= 0
       THEN /\ result' = Some(Raised(NoRdirService, None))
            /\ pc' = "done"
            /\ UNCHANGED << by_id, idx, attached, errors >>
       ELSE /\ by_id' = [id \in {_make_id(NS, "rdir", cs_rdir[h].addr) : h \in DOMAIN cs_rdir}
                            |-> << "rdir", id[3] >>]
            /\ errors' = << >>
            /\ idx' = 1
            /\ attached' = [k \in 1..Len(cs_services) |-> None]
            /\ result' = None
            /\ pc' = "lookup"
    /\ UNCHANGED << envVars, dirLink, max_per_rdir, lookups, link_calls, linkVars, sentVars,
                    addr_cache, clientVars >>

\* every failure of the lookup taken for a missing link
assign_lookup_AnyErrorLinks ==
    /\ pc = "lookup"
    /\ idx <= Len(all_services)
    /\ LET provider_id == ProviderId(all_services[idx])
       IN  \E resp \in DirectoryList(dirLink[provider_id]) :
             LET rdir_host == Lookup(resp)
                 outcome == IF rdir_host.ok THEN "found"
                            ELSE IF IsNotFound(rdir_host.exc) THEN "notfound"
                            ELSE "error"
             IN  /\ lookups' = Append(lookups, [id |-> provider_id, outcome |-> outcome])
                 /\ IF rdir_host.ok
                    THEN \* try: provider['rdir'] = by_id[...] except KeyError: warn
                         /\ attached' =
                              IF _make_id(NS, "rdir", rdir_host.val) \in DOMAIN by_id
                              THEN [attached EXCEPT ![idx] =
                                       Some(by_id[_make_id(NS, "rdir", rdir_host.val)])]
                              ELSE attached
                         /\ idx' = idx + 1
                         /\ UNCHANGED << pc, errors, volume_id >>
                    ELSE IF IsOioException(rdir_host.exc)
                    THEN \* except NotFound: call _smart_link_rdir(provider_id, all_rdir, ...)
                         /\ pc' = "select"
                         /\ volume_id' = Some(provider_id)
                         /\ UNCHANGED << attached, idx, errors >>
                    ELSE \* except OioException: errors.append((provider_id, exc))
                         /\ IsOioException(rdir_host.exc)
                         /\ errors' = Append(errors, [id |-> provider_id, exc |-> rdir_host.exc])
                         /\ idx' = idx + 1
                         /\ UNCHANGED << pc, attached, volume_id >>
    /\ UNCHANGED << envVars, dirLink, max_per_rdir, all_services, all_rdir, by_id, result,
                    link_calls, upper_limit, avoids, phase, ptry, polled, i, link_out,
                    sentVars, addr_cache, clientVars >>

\* lines 113-128 and 142-146: one turn of the loop up to the outcome of the lookup
assign_lookup ==
    /\ pc = "lookup"
    /\ idx <= Len(all_services)
    /\ LET provider_id == ProviderId(all_services[idx])
       IN  \E resp \in DirectoryList(dirLink[provider_id]) :
             LET rdir_host == Lookup(resp)
                 outcome == IF rdir_host.ok THEN "found"
                            ELSE IF IsNotFound(rdir_host.exc) THEN "notfound"
                            ELSE "error"
             IN  /\ lookups' = Append(lookups, [id |-> provider_id, outcome |-> outcome])
                 /\ IF rdir_host.ok
                    THEN \* try: provider['rdir'] = by_id[...] except KeyError: warn
                         /\ attached' =
                              IF _make_id(NS, "rdir", rdir_host.val) \in DOMAIN by_id
                              THEN [attached EXCEPT ![idx] =
                                       Some(by_id[_make_id(NS, "rdir", rdir_host.val)])]
                              ELSE attached
                         /\ idx' = idx + 1
                         /\ UNCHANGED << pc, errors, volume_id >>
                    ELSE IF IsNotFound(rdir_host.exc)
                    THEN \* except NotFound: call _smart_link_rdir(provider_id, all_rdir, ...)
                         /\ pc' = "select"
                         /\ volume_id' = Some(provider_id)
                         /\ UNCHANGED << attached, idx, errors >>
                    ELSE \* except OioException: errors.append((provider_id, exc))
                         /\ IsOioException(rdir_host.exc)
                         /\ errors' = Append(errors, [id |-> provider_id, exc |-> rdir_host.exc])
                         /\ idx' = idx + 1
                         /\ UNCHANGED << pc, attached, volume_id >>
    /\ UNCHANGED << envVars, dirLink, max_per_rdir, all_services, all_rdir, by_id, result,
                    link_calls, upper_limit, avoids, phase, ptry, polled, i, link_out,
                    sentVars, addr_cache, clientVars >>

-----------------------------------------------------------------------------
(* RdirClient: address resolution and request execution *)

VolumeError == Exc("VolumeException", 0, << "No rdir assigned to volume " >>)

\* the cache left as it is
_clear_cache_Kept(cache, volume) == cache

\* self._addr_cache.pop(volume_id, None)
_clear_cache(cache, volume) == [cache EXCEPT ![volume] = None]

\* the address resolution without the initial lookup in the cache
_get_rdir_addr_AlwaysListing(cache, volume, resp) ==
    LET host == Lookup(resp)
    IN  IF host.ok
        THEN [cache |-> [cache EXCEPT ![volume] = Some(host.val)],
              out |-> host, listed |-> TRUE]
        ELSE IF IsNotFound(host.exc)
        THEN [cache |-> cache, out |-> Raise(Exc("VolumeException", 0,
                                                  << "No rdir assigned to volume " >>)),
              listed |-> TRUE]
        ELSE [cache |-> cache, out |-> host, listed |-> TRUE]

\* _get_rdir_addr(volume_id), resp being the answer directory.list gives if asked.
\* cache: the cache afterwards; out: the host or the error; listed: whether the
\* directory was asked
_get_rdir_addr(cache, volume, resp) ==
    IF ~IsNone(cache[volume])
    THEN [cache |-> cache, out |-> Ret(Val(cache[volume])), listed |-> FALSE]
    ELSE LET host == Lookup(resp)
         IN  IF host.ok
             THEN [cache |-> [cache EXCEPT ![volume] = Some(host.val)],
                   out |-> host, listed |-> TRUE]
             ELSE IF IsNotFound(host.exc)
             THEN [cache |-> cache, out |-> Raise(VolumeError), listed |-> TRUE]
             ELSE [cache |-> cache, out |-> host, listed |-> TRUE]

\* the cached address dropped on every failure of the request
_rdir_request_ClearOnAnyError(cache, volume, resp, http) ==
    LET a == _get_rdir_addr(cache, volume, resp)
    IN  IF ~a.out.ok
        THEN [cache |-> a.cache, out |-> a.out, listed |-> a.listed, sent |-> None]
        ELSE IF ~http.ok
        THEN [cache |-> _clear_cache(a.cache, volume), out |-> http,
              listed |-> a.listed, sent |-> Some(a.out.val)]
        ELSE [cache |-> a.cache, out |-> http, listed |-> a.listed, sent |-> Some(a.out.val)]

\* _rdir_request(volume, ...): _make_uri (address resolution) then _direct_request,
\* http being the answer of the rdir server if it is asked.
\* sent: the host the request was sent to, or None
_rdir_request(cache, volume, resp, http) ==
    LET a == _get_rdir_addr(cache, volume, resp)
    IN  IF ~a.out.ok
        THEN [cache |-> a.cache, out |-> a.out, listed |-> a.listed, sent |-> None]
        ELSE IF ~http.ok /\ IsNetworkException(http.exc)
        THEN [cache |-> _clear_cache(a.cache, volume), out |-> http,
              listed |-> a.listed, sent |-> Some(a.out.val)]
        ELSE [cache |-> a.cache, out |-> http, listed |-> a.listed, sent |-> Some(a.out.val)]

\* the answers of an rdir server to a request without a body of interest
HttpAnswers == {Ret(<< >>), Raise(ClientError(500)), Raise(NetworkError)}

-----------------------------------------------------------------------------
(* Answers of the conscience and of the directory on the write path *)

service_type == "rawx"

PolledSvc(id, addr) == [id |-> id, addr |-> addr]

\* the rdir services the pool can choose: up, and not among the avoided ids
Candidates(avoid) ==
    {h \in DOMAIN cs_rdir :
        /\ cs_rdir[h].score > 0
        /\ (IsNone(avoid) \/ cs_rdir[h].id \notin Val(avoid))}

\* cs.poll('__rawx_rdir', avoid=avoid, known=known): the known service in the
\* joker slot then an rdir, a result without rdir, or an error
PollAnswers(avoid, known) ==
    LET joker == PolledSvc(known[1], known[1][3])
    IN  {Ret(<< joker, PolledSvc(cs_rdir[h].id, cs_rdir[h].addr) >>) : h \in Candidates(avoid)}
        \cup {Ret(<< joker >>)}
        \cup {Raise(ClientError(StatusBadRequest)), Raise(ClientError(StatusNoCandidate)),
              Raise(ClientError(503)), Raise(NetworkError)}

\* cs.lb.create_pool
CreatePoolAnswers == {Ret(<< >>), Raise(ClientError(503))}

\* statuses of directory.force that are neither retriable nor "already done"
FatalStatuses == {StatusBadRequest, 500}

\* directory.force(RDIR_ACCT, volume_id, 'rdir', forced, autocreate=True) on a
\* reference whose link is `link`; the "already" answers need an existing link
ForceAnswers(link) ==
    {Ret(<< >>), Raise(NetworkError)}
    \cup {Raise(ClientError(s)) : s \in retry \cup FatalStatuses}
    \cup (IF IsNone(link) THEN {}
          ELSE {Raise(ClientError(StatusAlreadyDone)),
                Raise(Exc("ClientException", 400, MsgAlready0 \o << ": rdir" >>)),
                Raise(Exc("ClientException", 503, MsgAlready1 \o << "" >>))})

-----------------------------------------------------------------------------
(* RdirDispatcher._smart_link_rdir and _poll_rdir *)

\* known = [_make_id(self.ns, service_type, volume_id)]
Known == << _make_id(NS, service_type, Val(volume_id)) >>

\* lines 186-199: the loads, the threshold and the avoid list
link_select ==
    /\ pc = "select"
    /\ link_calls' = Append(link_calls, Val(volume_id))
    /\ LET opened == opened_db(all_rdir)
       IN  IF Len(opened) <= 0
           THEN /\ link_out' = Some(Raise(NoValidRdirService))
                /\ pc' = "link_end"
                /\ UNCHANGED << upper_limit, avoids, phase, ptry >>
           ELSE /\ upper_limit' = upper_limit_of(opened, max_per_rdir)
                /\ avoids' = avoids_of(all_rdir, upper_limit')
                /\ phase' = 1
                /\ ptry' = 1
                /\ pc' = "poll"
                /\ UNCHANGED link_out
    /\ UNCHANGED << envVars, dirLink, max_per_rdir, all_services, all_rdir, by_id, idx,
                    attached, errors, result, lookups, volume_id, polled, i, sentVars,
                    addr_cache, clientVars >>

\* an exception leaves _poll_rdir: lines 202-206 retry without avoids or raise
PollRaises(e) ==
    IF phase = 1 /\ RetryWithoutAvoids(e, max_per_rdir)
    THEN /\ phase' = 2
         /\ ptry' = 1
         /\ pc' = "poll"
         /\ UNCHANGED << link_out, polled, i >>
    ELSE /\ link_out' = Some(Raise(e))
         /\ pc' = "link_end"
         /\ UNCHANGED << phase, ptry, polled, i >>

\* lines 254-259 and 263-269: one cs.poll of _poll_rdir and what follows it
link_poll ==
    /\ pc = "poll"
    /\ LET avoid == IF phase = 1 THEN Some(avoids) ELSE None
       IN  \E resp \in PollAnswers(avoid, Known) :
             /\ polls' = Append(polls, [avoid |-> avoid, known |-> Known,
                                         try |-> ptry, answer |-> resp])
             /\ IF resp.ok
                THEN LET svc == FirstRdirSvc(resp.val)
                     IN  IF svc.ok
                         THEN /\ polled' = Some(svc.val)
                              /\ i' = 0
                              /\ pc' = "force"
                              /\ UNCHANGED << phase, ptry, link_out >>
                         ELSE PollRaises(svc.exc)
                ELSE IF ptry = 1 /\ CreatePoolOn(resp.exc)
                THEN /\ pc' = "create_pool"
                     /\ UNCHANGED << phase, ptry, link_out, polled, i >>
                ELSE PollRaises(resp.exc)
    /\ UNCHANGED << envVars, dirLink, batchVars, volume_id, upper_limit, avoids,
                    pools, forces, force_last, sleeps, creates, create_last, addr_cache,
                    clientVars >>

\* lines 260-262: create the pool, then poll again
link_create_pool ==
    /\ pc = "create_pool"
    /\ pools' = Append(pools, << << 1, JOKER_SVC_TARGET >>, << 1, "rdir" >> >>)
    /\ \E resp \in CreatePoolAnswers :
         IF resp.ok
         THEN /\ ptry' = 2
              /\ pc' = "poll"
              /\ UNCHANGED << phase, link_out, polled, i >>
         ELSE PollRaises(resp.exc)
    /\ UNCHANGED << envVars, dirLink, batchVars, volume_id, upper_limit, avoids,
                    polls, forces, force_last, sleeps, creates, create_last, addr_cache,
                    clientVars >>

\* lines 209-242: one attempt of the force loop
link_force ==
    /\ pc = "force"
    /\ \E resp \in ForceAnswers(dirLink[Val(volume_id)]) :
         /\ forces' = forces + 1
         /\ force_last' = Some(resp)
         /\ IF resp.ok
            THEN /\ dirLink' = [dirLink EXCEPT ![Val(volume_id)] = Some(Val(polled).addr)]
                 /\ pc' = "create_db"
                 /\ UNCHANGED << i, sleeps, link_out >>
            ELSE LET todo == ForceHandler(resp.exc, i)
                 IN  /\ UNCHANGED dirLink
                     /\ IF todo = "break"
                        THEN /\ pc' = "create_db"
                             /\ UNCHANGED << i, sleeps, link_out >>
                        ELSE IF todo = "retry"
                        THEN /\ sleeps' = Append(sleeps, Backoff(i))
                             /\ i' = i + 1
                             /\ UNCHANGED << pc, link_out >>
                        ELSE /\ link_out' = Some(Raise(resp.exc))
                             /\ pc' = "link_end"
                             /\ UNCHANGED << i, sleeps >>
    /\ UNCHANGED << envVars, batchVars, volume_id, upper_limit, avoids, phase, ptry,
                    polled, polls, pools, creates, create_last, addr_cache,
                    clientVars >>

\* the failure of rdir.create raised to the caller
link_create_db_Raising ==
    /\ pc = "create_db"
    /\ \E resp \in DirectoryList(dirLink[Val(volume_id)]), http \in HttpAnswers :
         LET r == _rdir_request(addr_cache, Val(volume_id), resp, http)
         IN  /\ addr_cache' = r.cache
             /\ create_last' = Some(r.out)
             /\ link_out' = Some(IF r.out.ok THEN Ret(Val(polled).id) ELSE r.out)
    /\ creates' = creates + 1
    /\ pc' = "link_end"
    /\ UNCHANGED << envVars, dirLink, batchVars, volume_id, upper_limit, avoids, phase,
                    ptry, polled, i, polls, pools, forces, force_last, sleeps, clientVars >>

\* lines 244-250: rdir.create, whose failure is only logged, then return polled['id']
link_create_db ==
    /\ pc = "create_db"
    /\ \E resp \in DirectoryList(dirLink[Val(volume_id)]), http \in HttpAnswers :
         LET r == _rdir_request(addr_cache, Val(volume_id), resp, http)
         IN  /\ addr_cache' = r.cache
             /\ create_last' = Some(r.out)
    /\ creates' = creates + 1
    /\ link_out' = Some(Ret(Val(polled).id))
    /\ pc' = "link_end"
    /\ UNCHANGED << envVars, dirLink, batchVars, volume_id, upper_limit, avoids, phase,
                    ptry, polled, i, polls, pools, forces, force_last, sleeps, clientVars >>

\* the rdir another actor links a volume to
ConcurrentHost == CHOOSE h \in RdirHosts : \A g \in RdirHosts : h <= g

\* another actor links the volume while this dispatcher is writing its own link
concurrent_link ==
    /\ pc = "force"
    /\ forces = 0
    /\ IsNone(dirLink[Val(volume_id)])
    /\ dirLink' = [dirLink EXCEPT ![Val(volume_id)] = Some(ConcurrentHost)]
    /\ UNCHANGED << envVars, pc, batchVars, linkVars, sentVars, addr_cache, clientVars >>

\* the locals and the calls of a finished _smart_link_rdir are forgotten
LinkForgotten ==
    /\ volume_id' = None
    /\ upper_limit' = NoLimit
    /\ avoids' = {}
    /\ phase' = 0
    /\ ptry' = 0
    /\ polled' = None
    /\ i' = 0
    /\ link_out' = None
    /\ polls' = << >>
    /\ pools' = << >>
    /\ forces' = 0
    /\ force_last' = None
    /\ sleeps' = << >>
    /\ creates' = 0
    /\ create_last' = None

\* the link made without counting it
assign_linked_Uncounted ==
    /\ pc = "link_end"
    /\ Val(link_out).ok
    /\ attached' = [attached EXCEPT ![idx] = Some(by_id[Val(link_out).val])]
    /\ idx' = idx + 1
    /\ pc' = "lookup"
    /\ LinkForgotten
    /\ UNCHANGED << envVars, dirLink, max_per_rdir, all_services, all_rdir, by_id, errors,
                    result, lookups, link_calls, addr_cache, clientVars >>

\* lines 139-141: the link is made: count it and attach the rdir
assign_linked ==
    /\ pc = "link_end"
    /\ Val(link_out).ok
    /\ LET rdir == Val(link_out).val
           host == by_id[rdir][2]
           n_bases == DictGet(all_rdir[host].tags, OpenedDbCount, 0)
       IN  /\ all_rdir' = [all_rdir EXCEPT ![host].tags =
                              DictSet(@, OpenedDbCount, n_bases + 1)]
           /\ attached' = [attached EXCEPT ![idx] = Some(by_id[rdir])]
    /\ idx' = idx + 1
    /\ pc' = "lookup"
    /\ LinkForgotten
    /\ UNCHANGED << envVars, dirLink, max_per_rdir, all_services, by_id, errors, result,
                    lookups, link_calls, addr_cache, clientVars >>

\* the failure of one link raised at once instead of being collected
assign_link_failed_Raising ==
    /\ pc = "link_end"
    /\ ~Val(link_out).ok
    /\ result' = Some(Raised(Val(link_out).exc, None))
    /\ pc' = "done"
    /\ LinkForgotten
    /\ UNCHANGED << envVars, dirLink, max_per_rdir, all_services, all_rdir, by_id, idx,
                    attached, errors, lookups, link_calls, addr_cache, clientVars >>

\* lines 134-138: the link failed: log, collect the error, continue
assign_link_failed ==
    /\ pc = "link_end"
    /\ ~Val(link_out).ok
    /\ IsOioException(Val(link_out).exc)
    /\ errors' = Append(errors, [id |-> Val(volume_id), exc |-> Val(link_out).exc])
    /\ idx' = idx + 1
    /\ pc' = "lookup"
    /\ LinkForgotten
    /\ UNCHANGED << envVars, dirLink, max_per_rdir, all_services, all_rdir, by_id,
                    attached, result, lookups, link_calls, addr_cache, clientVars >>

\* lines 147-156: after the loop, raise what was collected or return the services
assign_finish ==
    /\ pc = "lookup"
    /\ idx > Len(all_services)
    /\ result' = Some(assign_outcome(errors, all_services))
    /\ pc' = "done"
    /\ UNCHANGED << envVars, dirLink, max_per_rdir, all_services, all_rdir, by_id, idx,
                    attached, errors, lookups, link_calls, linkVars, sentVars, addr_cache, clientVars >>

Next ==
    \/ assign_start
    \/ assign_lookup
    \/ link_select
    \/ link_poll
    \/ link_create_pool
    \/ link_force
    \/ link_create_db
    \/ concurrent_link
    \/ assign_linked
    \/ assign_link_failed
    \/ assign_finish

Spec == Init /\ [][Next]_vars

-----------------------------------------------------------------------------
(* The selection alone, over a wide range of fleets and caps: the call is   *)
(* followed up to the first poll of the first unlinked service.            *)

InitSelect ==
    /\ InitDispatcher
    /\ active = {}
    /\ rdir_db = None
    /\ max_per_rdir \in SelCaps
    /\ \E f \in SelFleets : cs_rdir = FleetOf(f)
    /\ cs_services = << Volume(1) >>
    /\ dirLink = [v \in VolIds |-> None]

\* the first poll is the last step followed
select_poll == Len(polls) = 0 /\ link_poll

NextSelect ==
    \/ assign_start
    \/ assign_lookup
    \/ link_select
    \/ select_poll

SpecSelect == InitSelect /\ [][NextSelect]_vars


-----------------------------------------------------------------------------
(* Properties of assign_services *)

SetMax(S) == CHOOSE x \in S : \A y \in S : y <= x

\* the call got past the fail-fast test of line 106
Started == pc # "idle" /\ DOMAIN all_rdir # {}

BatchIds == [k \in 1..Len(all_services) |-> ProviderId(all_services[k])]

\* the signatures of the collected errors and the ids that failed
Kinds == {[type |-> errors[k].exc.type, status |-> errors[k].exc.status] : k \in 1..Len(errors)}
FailedIds == {errors[k].id : k \in 1..Len(errors)}
FailedWith(kd) ==
    {errors[k].id : k \in {j \in 1..Len(errors) :
        errors[j].exc.type = kd.type /\ errors[j].exc.status = kd.status}}
Elems(seq) == {seq[k] : k \in 1..Len(seq)}

\* C1: a failed lookup or a failed selection-and-link of one service never
\* stops the batch: nothing is raised while services remain, the services are
\* looked up one after the other up to the last one, _smart_link_rdir is called
\* for exactly those whose lookup reported no link, and every service has been
\* processed when the collected errors are raised.
C1_FailureNeverStopsBatch ==
    Started =>
      /\ (pc # "done") => IsNone(result)
      /\ \A k \in 1..Len(lookups) : k <= Len(BatchIds) /\ lookups[k].id = BatchIds[k]
      /\ Len(lookups) = (IF pc = "done" THEN Len(all_services)
                         ELSE IF pc = "lookup" THEN idx - 1 ELSE idx)
      /\ (pc \in {"lookup", "done"}) =>
            /\ Len(link_calls) = Cardinality({k \in 1..Len(lookups) : lookups[k].outcome = "notfound"})
            /\ \A k \in 1..Len(lookups) :
                 lookups[k].outcome = "notfound" <=> lookups[k].id \in Elems(link_calls)
            /\ \A k \in 1..Len(lookups) :
                 \/ lookups[k].outcome = "found"
                 \/ lookups[k].id \in FailedIds
                 \/ ~IsNone(attached[k])
      /\ (pc = "done" /\ errors # << >>) => Val(result).kind = "raise"

\* a batch whose first service failed to be linked and whose second service was
\* linked afterwards, at its end
C1_Witness ==
    /\ pc = "done"
    /\ Len(errors) = 1
    /\ errors[1].id = BatchIds[1]
    /\ lookups[1].outcome = "notfound"
    /\ lookups[2].outcome = "notfound"
    /\ ~IsNone(attached[2])

-----------------------------------------------------------------------------
(* Properties of _smart_link_rdir *)

RetriableStatuses == {406, 450, 503, 504}

\* an answer of the directory that is one of the "already linked" outcomes
IsAlreadyAnswer(a) ==
    /\ ~a.ok
    /\ a.exc.type = "ClientException"
    /\ \/ a.exc.status = 455
       \/ StartsWith(a.exc.message, MsgAlready0)
       \/ StartsWith(a.exc.message, MsgAlready1)

\* an answer of the directory with a retriable status
IsRetriableAnswer(a) ==
    /\ ~a.ok
    /\ a.exc.type = "ClientException"
    /\ a.exc.status \in RetriableStatuses
    /\ ~IsAlreadyAnswer(a)

\* C4: forces answered with retriable statuses only are attempted exactly 7
\* times, then the error of the 7th attempt is raised; the delay slept after
\* the failed attempt k (k = 0..5) is k seconds and none follows the last one.
C4_RetryCeiling ==
    /\ forces <= 7
    /\ (pc = "force") =>
          /\ forces = i
          /\ sleeps = [k \in 1..i |-> k - 1]
          /\ (i > 0 => IsRetriableAnswer(Val(force_last)))
    /\ (~IsNone(force_last) /\ IsRetriableAnswer(Val(force_last)) /\ pc # "force") =>
          /\ forces = 7
          /\ pc = "link_end"
          /\ link_out = Some(Raise(Val(force_last).exc))
          /\ sleeps = << 0, 1, 2, 3, 4, 5 >>
          /\ creates = 0

\* seven forces were answered with a retriable status
C4_Witness ==
    /\ pc = "link_end"
    /\ forces = 7
    /\ IsRetriableAnswer(Val(force_last))
    /\ ~Val(link_out).ok

\* C5: after a force answered with 455 or with one of the two "already linked"
\* messages the algorithm makes no further force and does not raise: it goes on
\* to the database creation and returns the id of the selected rdir.
C5_AlreadyLinkedIsSuccess ==
    (~IsNone(force_last) /\ IsAlreadyAnswer(Val(force_last))) =>
       /\ pc \in {"create_db", "link_end"}
       /\ (pc = "create_db") => IsNone(link_out) /\ creates = 0
       /\ (pc = "link_end") =>
             /\ link_out = Some(Ret(Val(polled).id))
             /\ creates = 1

\* the volume was linked by another actor, the force was answered "already
\* linked" and the call returned
C5_Witness ==
    /\ pc = "link_end"
    /\ ~IsNone(force_last)
    /\ IsAlreadyAnswer(Val(force_last))
    /\ Val(force_last).exc.status # 455
    /\ dirLink[Val(volume_id)] = Some(ConcurrentHost)
    /\ Val(link_out).ok

WithAvoid == {k \in 1..Len(polls) : ~IsNone(polls[k].avoid)}
NoAvoid == {k \in 1..Len(polls) : IsNone(polls[k].avoid)}
IsRejection(a, status) ==
    ~a.ok /\ a.exc.type = "ClientException" /\ a.exc.status = status
\* the poll k ended the pool access it belongs to with an error
LeavesPoolAccess(k) ==
    /\ ~polls[k].answer.ok
    /\ ~(IsRejection(polls[k].answer, 400) /\ polls[k].try = 1)
\* a cap is given: max_per_rdir is a number of databases, 1 or more
CapGiven == ~IsNone(max_per_rdir) /\ Val(max_per_rdir) >= 1
\* max_per_rdir is given, whatever its value
CapPassed == ~IsNone(max_per_rdir)

\* a poll with the avoid-set rejected with 481 is followed by one more
\* pool access, without avoid-set and with the same known list, exactly when no
\* cap was given, and the answer to that one decides; with a cap the rejection
\* is raised; any other rejection is raised without a second pool access; when
\* the selection raises no force and no database creation has been made.
NoCandidateRetry(capGiven) ==
    /\ \A a \in WithAvoid, b \in NoAvoid : a < b
    /\ \A k \in 1..Len(polls) :
         /\ polls[k].known = << << NS, "rawx", Val(volume_id) >> >>
         /\ (k \in WithAvoid) => polls[k].avoid = Some(avoids)
    /\ Cardinality({k \in NoAvoid : polls[k].try = 1}) <= 1
    /\ Cardinality(NoAvoid) <= 2
    /\ (NoAvoid # {}) =>
          /\ ~capGiven
          /\ IsRejection(polls[SetMax(WithAvoid)].answer, 481)
    /\ (WithAvoid # {} /\ LeavesPoolAccess(SetMax(WithAvoid))) =>
          LET a == polls[SetMax(WithAvoid)].answer
          IN  IF IsRejection(a, 481) /\ ~capGiven
              THEN /\ phase = 2
                   /\ (NoAvoid = {}) => pc = "poll"
              ELSE /\ phase = 1
                   /\ NoAvoid = {}
                   /\ pc = "link_end"
                   /\ link_out = Some(Raise(a.exc))
    /\ (NoAvoid # {} /\ pc \notin {"poll", "create_pool"}) =>
          LET a == polls[SetMax(NoAvoid)].answer
          IN  IF a.ok /\ (\E k \in 1..Len(a.val) : a.val[k].id[2] = "rdir")
              THEN /\ ~IsNone(polled)
                   /\ Val(polled) \in Elems(a.val)
                   /\ Val(polled).id[2] = "rdir"
              ELSE /\ pc = "link_end"
                   /\ ~Val(link_out).ok
                   /\ LeavesPoolAccess(SetMax(NoAvoid)) => link_out = Some(Raise(a.exc))
    /\ (pc = "link_end" /\ ~Val(link_out).ok /\ IsNone(polled)) =>
          /\ forces = 0
          /\ creates = 0
          /\ IsNone(dirLink[Val(volume_id)])

\* C10: with the avoid-set rejected with 481 the pool is polled once more
\* without avoid-set exactly when no cap of 1 or more was given (a cap of 0
\* counts as no cap), and that poll decides; with a cap of 1 or more, or with
\* any other rejection, the rejection is raised without a second poll; no link
\* is written when the selection raises.
C10_NoCandidateRetry == NoCandidateRetry(CapGiven)

\* C10 as stated: every max_per_rdir that is passed, 0 included, forbids the
\* second poll.
C10_AsStated == NoCandidateRetry(CapPassed)

\* without cap, the poll with avoid-set was rejected with 481 and the poll
\* without avoid-set selected an rdir
C10_Witness ==
    /\ pc = "force"
    /\ IsNone(max_per_rdir)
    /\ Len(polls) = 2
    /\ polls[1].avoid # None
    /\ IsRejection(polls[1].answer, 481)
    /\ polls[2].avoid = None
    /\ polls[2].answer.ok


-----------------------------------------------------------------------------
(* RdirDispatcher.get_assignments *)

\* ref or service['addr'], ref being service.get('tags', {}).get('tag.service_id');
\* no service of the batch carries an empty service id
GetRef(service) ==
    IF ServiceIdTag \in DOMAIN service.tags THEN service.tags[ServiceIdTag] ELSE service.addr

\* the record attached in place of an rdir the conscience does not list:
\* {"addr": rdir_host, "tags": dict()}, a new object at every execution of lines
\* 90-91, told from the others by the turn of the loop that made it
Placeholder(rdir_host, turn) ==
    << "placeholder", turn, [addr |-> rdir_host, tags |-> EmptyDict] >>

\* every link answered with a new placeholder
rdir_of_Unknown(by, rdir_host, turn) ==
    [rdir |-> Placeholder(rdir_host, turn),
     by_id |-> DictSet(by, _make_id(NS, "rdir", rdir_host), Placeholder(rdir_host, turn))]

\* the placeholder attached but not remembered in by_id
rdir_of_Forgetful(by, rdir_host, turn) ==
    LET id == _make_id(NS, "rdir", rdir_host)
    IN  IF id \in DOMAIN by
        THEN [rdir |-> by[id], by_id |-> by]
        ELSE [rdir |-> Placeholder(rdir_host, turn), by_id |-> by]

\* lines 83-93: by_id[_make_id(ns, 'rdir', rdir_host)], and on KeyError a
\* placeholder that is remembered in by_id
rdir_of(by, rdir_host, turn) ==
    LET id == _make_id(NS, "rdir", rdir_host)
    IN  IF id \in DOMAIN by
        THEN [rdir |-> by[id], by_id |-> by]
        ELSE [rdir |-> Placeholder(rdir_host, turn),
              by_id |-> DictSet(by, id, Placeholder(rdir_host, turn))]

\* lines 70-73: the two listings and by_id
get_start ==
    /\ pc = "idle"
    /\ all_services' = cs_services
    /\ all_rdir' = cs_rdir
    /\ by_id' = [id \in {_make_id(NS, "rdir", cs_rdir[h].addr) : h \in DOMAIN cs_rdir}
                    |-> << "rdir", id[3] >>]
    /\ idx' = 1
    /\ attached' = [k \in 1..Len(cs_services) |-> None]
    /\ pc' = "get_lookup"
    /\ UNCHANGED << envVars, dirLink, max_per_rdir, errors, result, lookups, link_calls,
                    linkVars, sentVars, addr_cache, clientVars >>

\* lines 75-99: one turn of the loop
get_lookup ==
    /\ pc = "get_lookup"
    /\ idx <= Len(all_services)
    /\ LET ref == GetRef(all_services[idx])
       IN  \E resp \in DirectoryList(dirLink[ref]) :
             LET rdir_host == Lookup(resp)
                 outcome == IF rdir_host.ok THEN "found"
                            ELSE IF IsNotFound(rdir_host.exc) THEN "notfound"
                            ELSE "error"
             IN  /\ lookups' = Append(lookups, [id |-> ref, outcome |-> outcome])
                 /\ IF rdir_host.ok
                    THEN LET found == rdir_of(by_id, rdir_host.val, idx)
                         IN  /\ attached' = [attached EXCEPT ![idx] = Some(found.rdir)]
                             /\ by_id' = found.by_id
                    ELSE \* except NotFound: info; except OioException: warn
                         /\ IsOioException(rdir_host.exc)
                         /\ UNCHANGED << attached, by_id >>
    /\ idx' = idx + 1
    /\ UNCHANGED << envVars, dirLink, max_per_rdir, all_services, all_rdir, errors, result,
                    link_calls, linkVars, sentVars, addr_cache, pc, clientVars >>

\* line 100: return all_services, all_rdir
get_finish ==
    /\ pc = "get_lookup"
    /\ idx > Len(all_services)
    /\ result' = Some(Returned(<< attached, all_rdir >>))
    /\ pc' = "done"
    /\ UNCHANGED << envVars, dirLink, max_per_rdir, all_services, all_rdir, by_id, idx, attached,
                    errors, lookups, link_calls, linkVars, sentVars, addr_cache, clientVars >>

\* the links the directory can hold when the assignments are read
GetLinks == [VolIds -> {None} \cup {Some(h) : h \in RdirHosts \cup {DownHost}}]

InitGet ==
    /\ InitDispatcher
    /\ active = {}
    /\ rdir_db = None
    /\ max_per_rdir = None
    /\ \E f \in Fleets(RdirHosts, LoadTags) : cs_rdir = FleetOf(f)
    /\ cs_services = Batch
    /\ dirLink \in GetLinks

NextGet ==
    \/ get_start
    \/ get_lookup
    \/ get_finish

SpecGet == InitGet /\ [][NextGet]_vars

-----------------------------------------------------------------------------
(* RdirClient: requests and chunk_fetch *)

\* what a caller observes of one _rdir_request: r is what _rdir_request did, resp
\* the directory answer it got if it asked
Observed(volume, resp, r) ==
    [volume |-> volume,
     after |-> netfailed[volume],
     listed |-> r.listed,
     resp |-> IF r.listed THEN Some(resp) ELSE None,
     sent |-> r.sent,
     raised |-> IF r.out.ok THEN None ELSE Some(r.out.exc)]

\* the request was sent to a resolved address and failed on the network
NetFailure(r) == ~IsNone(r.sent) /\ ~r.out.ok /\ IsNetworkException(r.out.exc)

Observe(volume, resp, r) ==
    /\ req_log' = Some(Observed(volume, resp, r))
    /\ netfailed' = [netfailed EXCEPT ![volume] = IF NetFailure(r) THEN r.sent ELSE None]

\* any request of the client that is a single _rdir_request (create, chunk_push,
\* chunk_delete, status, ...), as at lines 334-337
client_request ==
    \E volume \in VolIds :
      \E resp \in DirectoryList(dirLink[volume]), http \in HttpAnswers :
        LET r == _rdir_request(addr_cache, volume, resp, http)
        IN  /\ addr_cache' = r.cache
            /\ Observe(volume, resp, r)
            /\ UNCHANGED << envVars, dirLink, pc, batchVars, linkVars, sentVars, active, fetch >>

\* the volume is linked to another rdir, or unlinked, by an operator
relink ==
    \E volume \in VolIds, link \in {None} \cup {Some(h) : h \in RdirHosts} :
      /\ link # dirLink[volume]
      /\ dirLink' = [dirLink EXCEPT ![volume] = link]
      /\ UNCHANGED << envVars, pc, batchVars, linkVars, sentVars, addr_cache, clientVars >>

\* the chunks an rdir can hold for a volume, in key order
Chunks == << "chunk1", "chunk2", "chunk3", "chunk4" >>

\* the key of a record, "container|content|chunk", as the sequence of its parts
\* and separators
Key(k) == << "container", "|", "content", "|", Chunks[k] >>

\* a record of a page: (key, value)
Record(k) == << Key(k), [mtime |-> k] >>

\* the non-empty pages an rdir can answer with: one or two records in key order
Pages ==
    {<< Record(a) >> : a \in DOMAIN Chunks}
    \cup {<< Record(q[1]), Record(q[2]) >> :
            q \in {c \in (DOMAIN Chunks) \X (DOMAIN Chunks) : c[1] < c[2]}}

RECURSIVE split(_, _)
\* key.split(sep)
split(key, sep) ==
    IF \A k \in 1..Len(key) : key[k] # sep
    THEN << key >>
    ELSE LET k == CHOOSE x \in 1..Len(key) : key[x] = sep /\ \A y \in 1..(x - 1) : key[y] # sep
         IN  << SubSeq(key, 1, k - 1) >> \o split(SubSeq(key, k + 1, Len(key)), sep)

\* lines 400-401: container, content, chunk = key.split('|'), and the tuple yielded
Yielded(record) ==
    LET parts == split(record[1], "|")
    IN  << parts[1], parts[2], parts[3], record[2] >>

\* the sequence ended on every page of a single record
PageEnds_Short(resp_body) == Len(resp_body) <= 1

\* line 396: len(resp_body) == 0
PageEnds(resp_body) == Len(resp_body) = 0

\* every error retried
FetchHandler_RetryAll(exc, attempt) ==
    IF attempt < fetch_max_attempts - 1 THEN "retry" ELSE "raise"

\* the attempt counter carried over from one page to the next
FirstAttempt_Carried(attempt) == attempt

\* lines 389-395: except OioNetworkException, sleep and continue, or raise
FetchHandler(exc, attempt) ==
    IF ~IsNetworkException(exc) THEN "raise"
    ELSE IF attempt < fetch_max_attempts - 1 THEN "retry"
    ELSE "raise"

\* line 392: sleep(i * 1.0)
FetchBackoff(attempt) == attempt * 1

\* line 384: for i in range(max_attempts), the first value of i for a page
FirstAttempt(attempt) == 0

\* the index in Chunks of the chunk of a key
ChunkOf(key) == CHOOSE k \in DOMAIN Chunks : Key(k) = key

\* the page an rdir holding the chunks db answers to a fetch with the cursor
\* start_after: the first FetchLimit records whose key is after the cursor
Serve(db, start_after) ==
    LET after == {k \in DOMAIN db :
                     IsNone(start_after) \/ db[k] > ChunkOf(Val(start_after))}
        n == IF Cardinality(after) < FetchLimit THEN Cardinality(after) ELSE FetchLimit
    IN  [j \in 1..n |->
            Record(db[CHOOSE k \in after : Cardinality({x \in after : db[x] < db[k]}) = j - 1])]

\* the answers of the rdir to a fetch: an error, or a page. The page is the one
\* served from rdir_db when the rdir holds one, else the empty page or any
\* non-empty page as long as less than MaxPages of them have been served
FetchAnswers(st) ==
    {Raise(ClientError(500)), Raise(NetworkError)}
    \cup (IF ~IsNone(rdir_db)
          THEN {Ret(Serve(Val(rdir_db), st.start_after))}
          ELSE {Ret(<< >>)}
               \cup (IF Len(st.pages) < MaxPages THEN {Ret(page) : page \in Pages} ELSE {}))

\* lines 377-381: the call of the generator, req_body = {'limit': limit}
fetch_start(f) ==
    /\ f \in active
    /\ fetch[f].pc = "idle"
    /\ \E volume \in VolIds :
         fetch' = [fetch EXCEPT ![f] = [NotCalled EXCEPT !.pc = "request",
                                                         !.volume = Some(volume)]]
    /\ UNCHANGED << envVars, dirLink, pc, batchVars, linkVars, sentVars, addr_cache,
                    netfailed, req_log, active >>

\* lines 384-397: one attempt of the current page
fetch_request(f) ==
    /\ f \in active
    /\ fetch[f].pc = "request"
    /\ LET st == fetch[f]
           volume == Val(st.volume)
       IN  \E resp \in DirectoryList(dirLink[volume]), http \in FetchAnswers(st) :
             LET r == _rdir_request(addr_cache, volume, resp, http)
                 tried == [st EXCEPT !.attempts =
                              Append(@, [start_after |-> st.start_after,
                                         raised |-> IF r.out.ok THEN None ELSE Some(r.out.exc)])]
             IN  /\ addr_cache' = r.cache
                 /\ Observe(volume, resp, r)
                 /\ fetch' = [fetch EXCEPT ![f] =
                      IF r.out.ok
                      THEN [tried EXCEPT !.resp_body = r.out.val,
                                         !.pos = 0,
                                         !.pages = Append(@, r.out.val),
                                         !.asked = Append(@, st.start_after),
                                         !.pc = IF PageEnds(r.out.val) THEN "done" ELSE "yield"]
                      ELSE IF FetchHandler(r.out.exc, st.i) = "retry"
                      THEN [tried EXCEPT !.sleeps = Append(@, FetchBackoff(st.i)),
                                         !.i = @ + 1]
                      ELSE [tried EXCEPT !.pc = "raised", !.raised = Some(r.out.exc)]]
    /\ UNCHANGED << envVars, dirLink, pc, batchVars, linkVars, sentVars, active >>

\* lines 399-401: the next record of the page is yielded
fetch_yield(f) ==
    /\ f \in active
    /\ fetch[f].pc = "yield"
    /\ fetch[f].pos < Len(fetch[f].resp_body)
    /\ fetch' = [fetch EXCEPT ![f].yielded = Append(@, Yielded(fetch[f].resp_body[fetch[f].pos + 1])),
                              ![f].pos = @ + 1]
    /\ UNCHANGED << envVars, dirLink, pc, batchVars, linkVars, sentVars, addr_cache,
                    netfailed, req_log, active >>

\* req_body kept on the client: the cursor of every generator moves
fetch_advance_Shared(f) ==
    /\ f \in active
    /\ fetch[f].pc = "yield"
    /\ fetch[f].pos = Len(fetch[f].resp_body)
    /\ fetch' = [g \in Fetchers |->
                   IF g = f
                   THEN [fetch[g] EXCEPT !.start_after = Some(fetch[f].resp_body[fetch[f].pos][1]),
                                         !.i = FirstAttempt(@),
                                         !.attempts = << >>,
                                         !.sleeps = << >>,
                                         !.pc = "request"]
                   ELSE IF fetch[g].pc = "idle" THEN fetch[g]
                   ELSE [fetch[g] EXCEPT !.start_after = Some(fetch[f].resp_body[fetch[f].pos][1])]]
    /\ UNCHANGED << envVars, dirLink, pc, batchVars, linkVars, sentVars, addr_cache,
                    netfailed, req_log, active >>

\* the cursor taken from the first record of the page
fetch_advance_FirstKey(f) ==
    /\ f \in active
    /\ fetch[f].pc = "yield"
    /\ fetch[f].pos = Len(fetch[f].resp_body)
    /\ fetch' = [fetch EXCEPT ![f].start_after = Some(fetch[f].resp_body[1][1]),
                              ![f].i = FirstAttempt(@),
                              ![f].attempts = << >>,
                              ![f].sleeps = << >>,
                              ![f].pc = "request"]
    /\ UNCHANGED << envVars, dirLink, pc, batchVars, linkVars, sentVars, addr_cache,
                    netfailed, req_log, active >>

\* lines 402-403 and 383-384: the page is exhausted, req_body['start_after'] = key,
\* and the loop turns to the next page
fetch_advance(f) ==
    /\ f \in active
    /\ fetch[f].pc = "yield"
    /\ fetch[f].pos = Len(fetch[f].resp_body)
    /\ fetch' = [fetch EXCEPT ![f].start_after = Some(fetch[f].resp_body[fetch[f].pos][1]),
                              ![f].i = FirstAttempt(@),
                              ![f].attempts = << >>,
                              ![f].sleeps = << >>,
                              ![f].pc = "request"]
    /\ UNCHANGED << envVars, dirLink, pc, batchVars, linkVars, sentVars, addr_cache,
                    netfailed, req_log, active >>

\* the fleet and the batch of the deployment the client works in
InitDeployment ==
    /\ InitDispatcher
    /\ max_per_rdir = None
    /\ cs_rdir = FleetOf([h \in RdirHosts |-> << 1, EmptyDict >>])
    /\ cs_services = Batch

\* the client alone: its requests while the links change
InitClient ==
    /\ InitDeployment
    /\ active = {}
    /\ rdir_db = None
    /\ dirLink \in [VolIds -> {None} \cup {Some(h) : h \in RdirHosts}]

NextClient ==
    \/ client_request
    \/ relink

SpecClient == InitClient /\ [][NextClient]_vars

\* the chunks S as an rdir holds them: in key order
StoreOf(S) == [j \in 1..Cardinality(S) |-> CHOOSE k \in S : Cardinality({x \in S : x < k}) = j - 1]

\* one chunk_fetch generator, the volumes being linked or not, the rdir
\* answering with any page or serving some of the chunks
InitFetch ==
    /\ InitDeployment
    /\ active = {1}
    /\ rdir_db \in {None} \cup {Some(StoreOf(S)) : S \in SUBSET DOMAIN Chunks}
    /\ dirLink \in [VolIds -> {None, Some(1)}]

NextFetch ==
    \/ \E f \in Fetchers : fetch_start(f)
    \/ \E f \in Fetchers : fetch_request(f)
    \/ \E f \in Fetchers : fetch_yield(f)
    \/ \E f \in Fetchers : fetch_advance(f)

SpecFetch == InitFetch /\ [][NextFetch]_vars

\* two chunk_fetch generators of the same client, called in any order, the rdir
\* holding every chunk of Chunks for the volumes
InitFetchTwo ==
    /\ InitDeployment
    /\ active = {1, 2}
    /\ rdir_db = Some(StoreOf(DOMAIN Chunks))
    /\ dirLink = [v \in VolIds |-> Some(1)]

SpecFetchTwo == InitFetchTwo /\ [][NextFetch]_vars

RECURSIVE SetSum(_, _)
\* the sum of the loads of the services S of the fleet r
SetSum(S, r) ==
    IF S = {} THEN 0
    ELSE LET h == CHOOSE x \in S : TRUE
         IN  (IF OpenedDbCount \in DOMAIN r[h].tags THEN r[h].tags[OpenedDbCount] ELSE 0)
             + SetSum(S \ {h}, r)

Up(r) == {h \in DOMAIN r : r[h].score > 0}
LoadOf(r, h) == IF OpenedDbCount \in DOMAIN r[h].tags THEN r[h].tags[OpenedDbCount] ELSE 0
IdsOf(S) == {<< NS, "rdir", h >> : h \in S}

\* the fleet is three rdirs that are up with loads 2, 4 and 6
Loads246 ==
    /\ DOMAIN all_rdir = {1, 2, 3}
    /\ \A h \in {1, 2, 3} : all_rdir[h].score > 0
    /\ LoadOf(all_rdir, 1) = 2 /\ LoadOf(all_rdir, 2) = 4 /\ LoadOf(all_rdir, 3) = 6

\* the avoid-set handed to the pool holds exactly the rdirs that are up and
\* whose load is above the threshold: the mean load of the rdirs that are up
\* without cap, max_per_rdir - 1 with a cap; rdirs that are down count in
\* neither. Loads 2, 4, 6 without cap avoid the load-6 rdir only, and a cap of
\* 3 gives the threshold 2.
AvoidSet(capGiven) ==
    (pc \in {"poll", "force", "create_pool", "link_end"} /\ Up(all_rdir) # {}) =>
      LET up == Up(all_rdir)
          total == SetSum(up, all_rdir)
          expected ==
            IF capGiven
            THEN {h \in up : LoadOf(all_rdir, h) > Val(max_per_rdir) - 1}
            ELSE {h \in up : LoadOf(all_rdir, h) * Cardinality(up) > total}
      IN  /\ avoids = IdsOf(expected)
          /\ capGiven => upper_limit.num = (Val(max_per_rdir) - 1) * upper_limit.den
          /\ ~capGiven => upper_limit.num * Cardinality(up) = total * upper_limit.den
          /\ (Len(polls) > 0) => polls[1].avoid = Some(IdsOf(expected))
          /\ (Loads246 /\ ~capGiven) => avoids = {<< NS, "rdir", 3 >>}
          /\ (max_per_rdir = Some(3)) => upper_limit.num = 2 * upper_limit.den

\* C9: the avoid-set is the set of the rdirs that are up and loaded above the
\* threshold, the threshold being max_per_rdir - 1 with a cap of 1 or more and
\* the mean load of the rdirs that are up otherwise (a cap of 0 counts as no
\* cap).
C9_AvoidSet == AvoidSet(CapGiven)

\* C9 as stated: the threshold is max_per_rdir - 1 for every max_per_rdir that
\* is passed, 0 included.
C9_AsStated == AvoidSet(CapPassed)

\* loads 2, 4, 6 without cap: the poll was made avoiding the load-6 rdir
C9_Witness ==
    /\ Loads246
    /\ IsNone(max_per_rdir)
    /\ Len(polls) = 1
    /\ polls[1].avoid = Some({<< NS, "rdir", 3 >>})


-----------------------------------------------------------------------------
(* Properties of get_assignments *)

\* the link the directory holds for the k-th service of the batch
LinkOf(k) == dirLink[IF ServiceIdTag \in DOMAIN Batch[k].tags
                     THEN Batch[k].tags[ServiceIdTag] ELSE Batch[k].addr]

\* C3: every service whose link was read and names an rdir the conscience lists
\* has exactly that rdir attached, whatever happened to the other services; every
\* service is looked up once, whatever the outcomes, the call returns, and no
\* poll, pool creation, force or database creation is made.
C3_ReadOnlyAssignments ==
    /\ Len(lookups) = (IF pc = "idle" THEN 0 ELSE idx - 1)
    /\ \A k \in 1..Len(lookups) :
         (/\ lookups[k].outcome = "found"
          /\ ~IsNone(LinkOf(k))
          /\ Val(LinkOf(k)) \in DOMAIN cs_rdir)
         => /\ attached[k] = Some(<< "rdir", Val(LinkOf(k)) >>)
            /\ all_rdir[Val(LinkOf(k))] = cs_rdir[Val(LinkOf(k))]
    /\ \A k \in 1..Len(lookups) :
         lookups[k].outcome # "found" => IsNone(attached[k])
    /\ pc = "done" =>
         /\ Len(lookups) = Len(Batch)
         /\ Val(result).kind = "return"
         /\ Val(Val(result).val) = << attached, cs_rdir >>
    /\ pc # "done" => IsNone(result)
    /\ Len(polls) = 0 /\ Len(pools) = 0 /\ forces = 0 /\ creates = 0 /\ Len(link_calls) = 0

\* the lookup of the first service failed with a directory error and the second
\* service got the rdir it is linked to
C3_Witness ==
    /\ pc = "done"
    /\ lookups[1].outcome = "error"
    /\ lookups[2].outcome = "found"
    /\ Val(LinkOf(2)) \in DOMAIN cs_rdir
    /\ attached[2] = Some(<< "rdir", Val(LinkOf(2)) >>)
    /\ IsNone(attached[1])


-----------------------------------------------------------------------------
(* Properties of the RdirClient *)

\* the directory answer lists an rdir
ListsRdir(resp) == resp.ok /\ \E k \in 1..Len(resp.val) : resp.val[k].type = "rdir"
\* the first rdir the directory answer lists
ListedRdir(resp) ==
    LET k == CHOOSE x \in 1..Len(resp.val) :
                /\ resp.val[x].type = "rdir"
                /\ \A y \in 1..(x - 1) : resp.val[y].type # "rdir"
    IN  resp.val[k].host

\* C6: once a request sent to the resolved address of a volume has failed on the
\* network, the cache holds no address for the volume, and the next request for
\* the volume asks the directory and uses what the directory answers: the rdir
\* it lists, else the error of the lookup.
C6_FreshLookupAfterNetworkFailure ==
    /\ \A v \in VolIds : ~IsNone(netfailed[v]) => IsNone(addr_cache[v])
    /\ (~IsNone(req_log) /\ ~IsNone(Val(req_log).after)) =>
          LET r == Val(req_log)
              resp == Val(r.resp)
          IN  /\ r.listed
              /\ ~IsNone(r.resp)
              /\ IF ListsRdir(resp)
                 THEN r.sent = Some(ListedRdir(resp))
                 ELSE /\ IsNone(r.sent)
                      /\ ~IsNone(r.raised)
                      /\ ~resp.ok /\ resp.exc.type # "NotFound" => r.raised = Some(resp.exc)
                      /\ (resp.ok \/ resp.exc.type = "NotFound") =>
                            Val(r.raised).type = "VolumeException"

\* a request sent to rdir 1 failed on the network, the volume was linked to rdir
\* 2, and the next request for the volume was sent to rdir 2
C6_Witness ==
    /\ ~IsNone(req_log)
    /\ Val(req_log).after = Some(1)
    /\ Val(req_log).listed
    /\ Val(req_log).sent = Some(2)

-----------------------------------------------------------------------------
(* Properties of chunk_fetch *)

RECURSIVE Flat(_)
\* the records of a sequence of pages, in order
Flat(pages) == IF pages = << >> THEN << >> ELSE Head(pages) \o Flat(Tail(pages))

\* the tuple (container, content, chunk, value) of a record
TupleOf(record) ==
    LET k == CHOOSE x \in DOMAIN Chunks : Record(x) = record
    IN  << << "container" >>, << "content" >>, << Chunks[k] >>, record[2] >>

Sizes(pages) == [k \in 1..Len(pages) |-> Len(pages[k])]

\* C7: the tuples yielded are those of the records of the pages received, in
\* order, up to the record reached in the current page; the only empty page is
\* the last one and ends the sequence, which ends in no other way than an error;
\* pages of sizes 2, 2, 0 give 4 tuples out of 3 successful requests.
C7_Pagination ==
    \A f \in active :
      LET st == fetch[f]
          records == Flat(st.pages)
          reached == IF st.pc = "yield"
                     THEN Len(records) - Len(st.resp_body) + st.pos
                     ELSE Len(records)
      IN  /\ st.yielded = [k \in 1..reached |-> TupleOf(records[k])]
          /\ Len(st.asked) = Len(st.pages)
          /\ \A k \in 1..Len(st.pages) :
               st.pages[k] = << >> => (k = Len(st.pages) /\ st.pc = "done")
          /\ st.pc = "done" =>
               /\ st.pages # << >>
               /\ st.pages[Len(st.pages)] = << >>
               /\ Len(st.yielded) = Len(records)
          /\ st.pc = "yield" => st.resp_body = st.pages[Len(st.pages)]
          /\ Sizes(st.pages) = << 2, 2, 0 >> =>
               /\ Len(st.yielded) = 4
               /\ Len(st.asked) = 3
               /\ st.pc = "done"

\* the pages received have the sizes 2, 2 and 0, and the sequence has ended
\* after 4 tuples
C7_Witness ==
    /\ fetch[1].pc = "done"
    /\ Sizes(fetch[1].pages) = << 2, 2, 0 >>
    /\ Len(fetch[1].yielded) = 4
    /\ Len(fetch[1].asked) = 3

NetworkLevel(a) == ~IsNone(a.raised) /\ Val(a.raised).type = "OioNetworkException"

\* C8: a page is attempted at most 3 times, with the same cursor; every attempt
\* but the last one failed on the network and was followed by a sleep of its
\* index in seconds; the count starts at 0 for every page; a third network
\* failure in a row is raised; any other error is raised by the attempt that
\* met it, without sleep.
C8_FetchRetry ==
    \A f \in active :
      LET st == fetch[f]
          n == Len(st.attempts)
      IN  /\ n <= 3
          /\ st.i \in 0..2
          /\ \A k \in 1..n : st.attempts[k].start_after = st.start_after
          /\ st.pc = "request" =>
               /\ n = st.i
               /\ \A k \in 1..n : NetworkLevel(st.attempts[k])
               /\ st.sleeps = [k \in 1..n |-> k - 1]
          /\ st.pc \in {"yield", "done", "raised"} =>
               /\ n = st.i + 1
               /\ \A k \in 1..(n - 1) : NetworkLevel(st.attempts[k])
               /\ st.sleeps = [k \in 1..(n - 1) |-> k - 1]
          /\ st.pc \in {"yield", "done"} => IsNone(st.attempts[n].raised)
          /\ st.pc = "raised" =>
               /\ st.attempts[n].raised = st.raised
               /\ ~IsNone(st.raised)
               /\ NetworkLevel(st.attempts[n]) => n = 3
          /\ st.pc # "raised" => IsNone(st.raised)

\* on the second page, the third network failure in a row has been raised after
\* sleeps of 0 and 1 second
C8_Witness ==
    /\ fetch[1].pc = "raised"
    /\ Len(fetch[1].pages) = 1
    /\ Len(fetch[1].attempts) = 3
    /\ NetworkLevel(fetch[1].attempts[3])
    /\ fetch[1].sleeps = << 0, 1 >>

-----------------------------------------------------------------------------
(* Further properties of assign_services *)

\* C11: when the conscience lists no rdir service, assign_services raises
\* ServiceUnavailable as its first and only step: no directory lookup, no
\* selection, no poll, no pool creation, no force and no database creation is
\* made for any service.
C11_FailFastWithoutRdir ==
    (pc # "idle" /\ DOMAIN cs_rdir = {}) =>
       /\ pc = "done"
       /\ result = Some(Raised(NoRdirService, None))
       /\ Val(Val(result).exc).type = "ServiceUnavailable"
       /\ Len(lookups) = 0
       /\ Len(link_calls) = 0
       /\ Len(polls) = 0 /\ Len(pools) = 0 /\ forces = 0 /\ creates = 0
       /\ \A k \in 1..Len(attached) : IsNone(attached[k])
       /\ dirLink \in InitLinks

\* the call was made with no rdir service listed and services to assign, one of
\* them without link, and has raised
C11_Witness ==
    /\ pc = "done"
    /\ DOMAIN cs_rdir = {}
    /\ Len(cs_services) = 2
    /\ \E v \in VolIds : IsNone(dirLink[v])
    /\ Val(result).kind = "raise"
    /\ Val(Val(result).exc).type = "ServiceUnavailable"

-----------------------------------------------------------------------------
(* Further properties of get_assignments *)

\* the services looked up so far whose link was read and names an rdir the
\* conscience does not list
Orphans ==
    {k \in 1..Len(lookups) :
        /\ lookups[k].outcome = "found"
        /\ ~IsNone(LinkOf(k))
        /\ Val(LinkOf(k)) \notin DOMAIN cs_rdir}

\* the first of the orphans linked to the same address as k
FirstOrphan(k) ==
    CHOOSE j \in Orphans : /\ LinkOf(j) = LinkOf(k)
                           /\ \A m \in Orphans : LinkOf(m) = LinkOf(k) => j <= m

\* every orphan has a placeholder attached, a record of exactly the address it
\* is linked to and an empty tag map, made for the first orphan of that address
\* and shared by the later ones; the loop goes on to the last service
PlaceholderShared ==
    /\ Len(lookups) = (IF pc = "idle" THEN 0 ELSE idx - 1)
    /\ pc = "done" => Len(lookups) = Len(Batch) /\ Val(result).kind = "return"
    /\ \A k \in Orphans :
         /\ ~IsNone(attached[k])
         /\ Val(attached[k])[1] = "placeholder"
         /\ Val(attached[k])[2] = FirstOrphan(k)
         /\ Val(attached[k])[3].addr = Val(LinkOf(k))
         /\ Val(attached[k])[3].tags = EmptyDict
         /\ attached[k] = attached[FirstOrphan(k)]
         /\ << NS, "rdir", Val(LinkOf(k)) >> \in DOMAIN by_id
         /\ by_id[<< NS, "rdir", Val(LinkOf(k)) >>] = Val(attached[k])

\* C12: a service linked to an rdir the conscience does not list gets a
\* placeholder of two fields, the address and an empty tag map, that carries no
\* score and no mark of health; the later services linked to the same address
\* get the same object; the batch goes on.
C12_PlaceholderRecord ==
    /\ PlaceholderShared
    /\ \A k \in Orphans : DOMAIN Val(attached[k])[3] = {"addr", "tags"}

\* C12 as stated: the placeholder is marked as unhealthy, as the rdirs the
\* conscience lists with a score of 0 are.
C12_AsStated ==
    /\ PlaceholderShared
    /\ \A k \in Orphans :
         /\ "score" \in DOMAIN Val(attached[k])[3]
         /\ Val(attached[k])[3].score = 0

\* both services are linked to an rdir the conscience does not list, and the
\* second one got the placeholder made for the first one
C12_Witness ==
    /\ pc = "done"
    /\ Orphans = {1, 2}
    /\ LinkOf(1) = LinkOf(2)
    /\ Val(attached[1])[1] = "placeholder"
    /\ attached[2] = attached[1]

RECURSIVE AloneFrom(_, _)
\* the tuples a chunk_fetch alone yields from the cursor on, no request failing,
\* against an rdir holding db
AloneFrom(db, start_after) ==
    LET page == Serve(db, start_after)
    IN  IF Len(page) = 0 THEN << >>
        ELSE [k \in 1..Len(page) |-> TupleOf(page[k])]
             \o AloneFrom(db, Some(page[Len(page)][1]))

\* a is the beginning of b
IsPrefix(a, b) == Len(a) <= Len(b) /\ a = SubSeq(b, 1, Len(a))

\* the cursor a generator sends for its page number n: none for the first one,
\* else the last key of its own page n - 1
OwnCursor(st, n) ==
    IF n = 1 THEN None ELSE Some(st.pages[n - 1][Len(st.pages[n - 1])][1])

\* C13: two chunk_fetch sequences of the same client with their page requests
\* interleaved in any order, over the same volume or not, do not interfere: each
\* one sends as cursor only the last key of its own last page (none before its
\* first page), at every attempt, and yields the tuples it yields when run alone
\* against the same rdir: a beginning of them while it runs or when a request
\* of its own raised, all of them once it is done
C13_NoInterference ==
    \A f \in active :
      LET st == fetch[f]
      IN  st.pc # "idle" =>
            /\ \A n \in 1..Len(st.asked) : st.asked[n] = OwnCursor(st, n)
            /\ \A a \in 1..Len(st.attempts) :
                  st.attempts[a].start_after
                    = OwnCursor(st, IF st.pc \in {"yield", "done"}
                                    THEN Len(st.pages) ELSE Len(st.pages) + 1)
            /\ st.pc = "request" => st.start_after = OwnCursor(st, Len(st.pages) + 1)
            /\ IsPrefix(st.yielded, AloneFrom(Val(rdir_db), None))
            /\ st.pc = "done" => st.yielded = AloneFrom(Val(rdir_db), None)

\* two sequences over the same volume: one is done with every tuple yielded
\* while the other one, its first page yielded, retries the request of its
\* second page with the last key of its first page
C13_Witness ==
    /\ active = {1, 2}
    /\ fetch[1].volume = fetch[2].volume
    /\ fetch[1].pc = "done"
    /\ Len(fetch[1].yielded) = Len(Chunks)
    /\ fetch[2].pc = "request"
    /\ Len(fetch[2].pages) = 1
    /\ Len(fetch[2].attempts) = 1
    /\ fetch[2].start_after = Some(Key(FetchLimit))

\* the answer a is a network-level failure
IsNetworkAnswer(a) == ~a.ok /\ IsNetworkException(a.exc)

\* C14: a force that fails with a network-level error is retried like a
\* retriable status: the loop goes on after it, the delay slept after the failed
\* attempt k (k = 0..5) being k seconds, and the call ends on such a failure
\* only at the 7th attempt, raising it.
C14_NetworkErrorRetried ==
    (~IsNone(force_last) /\ IsNetworkAnswer(Val(force_last))) =>
       \/ /\ pc = "force"
          /\ forces = i
          /\ sleeps = [k \in 1..i |-> k - 1]
       \/ /\ pc = "link_end"
          /\ forces = max_attempts
          /\ sleeps = [k \in 1..(max_attempts - 1) |-> k - 1]
          /\ link_out = Some(Raise(Val(force_last).exc))

\* the answer a is a ClientException whose status is neither retriable nor 455
\* and whose message is none of the two "already linked" ones
IsFatalAnswer(a) ==
    /\ ~a.ok
    /\ a.exc.type = "ClientException"
    /\ a.exc.status >= 400
    /\ a.exc.status \notin RetriableStatuses
    /\ ~IsAlreadyAnswer(a)

NonEmptyBefore(st, n) == {k \in 1..n : Len(st.pages[k]) > 0}

\* the last key of the most recently received non-empty page among the first n
\* pages, none when there is no such page
LastKey(st, n) ==
    IF NonEmptyBefore(st, n) = {} THEN None
    ELSE LET k == CHOOSE x \in NonEmptyBefore(st, n) : \A y \in NonEmptyBefore(st, n) : y <= x
         IN  Some(st.pages[k][Len(st.pages[k])][1])

\* the pages received before the attempts of the current page were made
PagesBefore(st) ==
    IF st.pc \in {"yield", "done"} THEN Len(st.pages) - 1 ELSE Len(st.pages)

\* C16: the request of the first page carries no cursor, and every later
\* request, each retried attempt included, carries the last key of the most
\* recently received non-empty page. Hence when the rdir serves the records of
\* its database after the cursor in key order, the tuples yielded are the
\* records of the database in key order, each one once: a beginning of them
\* while the sequence runs or when it raised, all of them when it is done,
\* whatever requests failed and were retried.
C16_CursorCarried ==
    \A f \in active :
      LET st == fetch[f]
      IN  st.pc # "idle" =>
            /\ \A n \in 1..Len(st.asked) : st.asked[n] = LastKey(st, n - 1)
            /\ \A a \in 1..Len(st.attempts) :
                  st.attempts[a].start_after = LastKey(st, PagesBefore(st))
            /\ ~IsNone(rdir_db) =>
                  LET db == Val(rdir_db)
                  IN  /\ Len(st.yielded) <= Len(db)
                      /\ \A k \in 1..Len(st.yielded) : st.yielded[k] = TupleOf(Record(db[k]))
                      /\ st.pc = "done" => Len(st.yielded) = Len(db)

\* every record of a database of four chunks was yielded, the request after
\* the last non-empty page having failed once and been retried with the key of
\* the last record
C16_Witness ==
    /\ rdir_db = Some(StoreOf(DOMAIN Chunks))
    /\ fetch[1].pc = "done"
    /\ Len(fetch[1].yielded) = Len(Chunks)
    /\ Len(fetch[1].attempts) = 2
    /\ ~IsNone(fetch[1].attempts[1].raised)
    /\ IsNetworkException(Val(fetch[1].attempts[1].raised))
    /\ fetch[1].attempts[2].start_after = Some(Key(Len(Chunks)))

\* the steps of a call of _smart_link_rdir
LinkPcs == {"select", "poll", "create_pool", "force", "create_db", "link_end"}

\* no poll, pool creation, force or database creation is under way or was made
\* since the last call of _smart_link_rdir ended
NoLinkWork ==
    /\ IsNone(volume_id)
    /\ polls = << >>
    /\ pools = << >>
    /\ forces = 0
    /\ creates = 0

\* between two services no link work exists; the link work under way is for the
\* service looked up last, whose lookup reported no link; a service found
\* linked or whose lookup failed otherwise gets no call of _smart_link_rdir,
\* and the latter has its lookup error among the collected errors
OnlyUnlinkedAreLinked ==
    Started =>
      /\ (pc \in {"lookup", "done"}) => NoLinkWork
      /\ (pc \in LinkPcs) =>
            /\ lookups # << >>
            /\ lookups[Len(lookups)] = [id |-> Val(volume_id), outcome |-> "notfound"]
      /\ \A k \in 1..Len(lookups) :
            /\ (lookups[k].outcome = "found") =>
                  /\ lookups[k].id \notin Elems(link_calls)
                  /\ lookups[k].id \notin FailedIds
            /\ (lookups[k].outcome = "error") =>
                  /\ lookups[k].id \notin Elems(link_calls)
                  /\ \E j \in 1..Len(errors) :
                        /\ errors[j].id = lookups[k].id
                        /\ Raise(errors[j].exc) \in DirectoryList(None) \ {Raise(NotFoundError)}

\* a link of the directory changes only during the link work of the service
\* it belongs to
LinkKept ==
    \A v \in VolIds :
      (dirLink'[v] # dirLink[v]) =>
         /\ pc = "force"
         /\ volume_id = Some(v)
         /\ lookups[Len(lookups)] = [id |-> v, outcome |-> "notfound"]

\* C17: assign_services runs the selection-and-link algorithm (poll, pool
\* creation, force, database creation) only for the services whose lookup
\* reported no link. A service found linked and a service whose lookup failed
\* with another error get none of it, so the link of the former is never
\* changed, and the error of the latter is collected as a failure of the batch.
C17_LinkOnlyWhenNoLink == []OnlyUnlinkedAreLinked /\ [][LinkKept]_vars

\* a batch ended whose first service was found linked and whose second one
\* failed its lookup: no call of _smart_link_rdir, one collected error
C17_Witness ==
    /\ pc = "done"
    /\ Len(lookups) = 2
    /\ lookups[1].outcome = "found"
    /\ lookups[2].outcome = "error"
    /\ link_calls = << >>
    /\ Len(errors) = 1
    /\ ~IsNone(dirLink[BatchIds[1]])
    /\ Val(result).kind = "raise"

\* the services of the batch that this call linked to the rdir h
LinkedTo(h) ==
    {k \in 1..Len(lookups) :
        lookups[k].outcome = "notfound" /\ attached[k] = Some(<< "rdir", h >>)}

\* the listing of the conscience with the counter of every rdir raised by the
\* number of services this call linked to it, a missing counter counting as 0
CountedFleet ==
    [h \in DOMAIN cs_rdir |->
       IF LinkedTo(h) = {} THEN cs_rdir[h]
       ELSE [cs_rdir[h] EXCEPT !.tags =
               DictSet(@, OpenedDbCount, LoadOf(cs_rdir, h) + Cardinality(LinkedTo(h)))]]

\* C18: in a batch the load counter of an rdir is the one the conscience listed
\* (0 when absent) plus 1 for each service the batch linked to it, nothing else
\* of the listing changes, a failed selection-and-link counts nothing, and each
\* selection computes its threshold and its avoid-set from the counters as
\* incremented by the links made before it.
C18_LoadCounted ==
    Started =>
      /\ all_rdir = CountedFleet
      /\ \A k \in 1..Len(lookups) :
            (lookups[k].id \in FailedIds) => \A h \in DOMAIN cs_rdir : k \notin LinkedTo(h)
      /\ (pc \in LinkPcs /\ polls # << >>) =>
            /\ upper_limit = upper_limit_of(opened_db(CountedFleet), max_per_rdir)
            /\ polls[1].avoid = Some(avoids_of(CountedFleet, upper_limit))

\* two rdirs listed without counter and no cap: the first service was linked to
\* rdir 1, whose counter is now 1, and the selection for the second service
\* polls avoiding rdir 1
C18_Witness ==
    /\ IsNone(max_per_rdir)
    /\ \A h \in RdirHosts : h \in DOMAIN cs_rdir /\ cs_rdir[h].score > 0 /\ LoadOf(cs_rdir, h) = 0
    /\ LinkedTo(1) = {1}
    /\ LoadOf(all_rdir, 1) = 1
    /\ LoadOf(all_rdir, 2) = 0
    /\ Len(link_calls) = 2
    /\ Len(polls) = 1
    /\ polls[1].avoid = Some({<< NS, "rdir", 1 >>})

\* the link write ended in success or in an already-linked outcome
LinkWritten ==
    /\ ~IsNone(force_last)
    /\ Val(force_last).ok \/ IsAlreadyAnswer(Val(force_last))

\* C19: the database creation is asked of the rdir at most once per call of
\* the algorithm, only after the link write ended in success or in an
\* already-linked outcome and never when the call raised; once it has been
\* asked, whatever it answered, the call returns the id of the selected rdir.
C19_CreateOnceNeverFatal ==
    /\ creates <= 1
    /\ creates = 0 <=> IsNone(create_last)
    /\ (pc = "create_db") => LinkWritten /\ creates = 0 /\ IsNone(link_out)
    /\ (creates = 1) =>
          /\ pc = "link_end"
          /\ LinkWritten
          /\ link_out = Some(Ret(Val(polled).id))
    /\ (pc = "link_end" /\ ~Val(link_out).ok) => creates = 0
    /\ (pc = "link_end" /\ LinkWritten) => creates = 1

\* the link was written, the database creation failed on a network error and
\* the call returned the id of the selected rdir
C19_Witness ==
    /\ pc = "link_end"
    /\ creates = 1
    /\ ~IsNone(force_last) /\ Val(force_last).ok
    /\ ~Val(create_last).ok
    /\ IsNetworkException(Val(create_last).exc)
    /\ link_out = Some(Ret(Val(polled).id))

\* the first polls of the calls of _poll_rdir that were rejected with status 400
Rejected400 == {k \in 1..Len(polls) : polls[k].try = 1 /\ IsRejection(polls[k].answer, StatusBadRequest)}

\* the weighted targets of the pool: one slot for any service, one for an rdir
PoolTargets == << << 1, JOKER_SVC_TARGET >>, << 1, "rdir" >> >>

\* C20: a call of _poll_rdir polls the pool; only when that poll is rejected
\* with status 400 does it create the pool, with the targets (1, any slot) and
\* (1, rdir), and poll once more with the same avoid and known arguments. A
\* call creates the pool at most once, a first poll failing otherwise leaves
\* the call without creation, and so does a failing second poll, without
\* further creation or poll.
C20_PoolCreatedOn400 ==
    /\ \A k \in 1..Len(polls) :
          /\ polls[k].try \in {1, 2}
          /\ (polls[k].try = 2) =>
                /\ k > 1
                /\ k - 1 \in Rejected400
                /\ polls[k].avoid = polls[k - 1].avoid
                /\ polls[k].known = polls[k - 1].known
          /\ (k < Len(polls)) =>
                (polls[k + 1].try = 2 <=> k \in Rejected400)
    /\ \A k \in 1..Len(pools) : pools[k] = PoolTargets
    /\ Len(pools) = Cardinality(Rejected400) - (IF pc = "create_pool" THEN 1 ELSE 0)
    /\ (pc = "create_pool") => Len(polls) \in Rejected400
    /\ (pc = "poll" /\ ptry = 2) => Len(polls) \in Rejected400
    /\ (pc = "poll" /\ ptry = 1 /\ polls # << >>) =>
          IsRejection(polls[Len(polls)].answer, StatusNoCandidate)
    /\ (pc = "link_end" /\ polls # << >> /\ ~polls[Len(polls)].answer.ok
           /\ ~(Len(polls) \in Rejected400)) =>
          link_out = Some(Raise(polls[Len(polls)].answer.exc))

\* the first poll was rejected with 400, the pool was created, the second poll
\* was rejected with 400 too and the call raised it without another creation
C20_Witness ==
    /\ pc = "link_end"
    /\ Len(polls) = 2
    /\ polls[1].try = 1 /\ IsRejection(polls[1].answer, StatusBadRequest)
    /\ polls[2].try = 2 /\ IsRejection(polls[2].answer, StatusBadRequest)
    /\ polls[2].avoid = polls[1].avoid
    /\ pools = << PoolTargets >>
    /\ link_out = Some(Raise(polls[2].answer.exc))

\* the entries of a directory answer that are of type rdir
RdirEntries(srv) == {k \in 1..Len(srv) : srv[k].type = "rdir"}

\* the host of the first entry of type rdir of a directory answer
FirstRdirHost(srv) ==
    srv[CHOOSE k \in RdirEntries(srv) : \A j \in RdirEntries(srv) : k <= j].host

\* the directory answered that the volume has no rdir: NotFound, or a list
\* without entry of type rdir
NoMatchingEntry(resp) ==
    IF resp.ok THEN RdirEntries(resp.val) = {} ELSE resp.exc.type = "NotFound"

\* one request of the client for the volume of the observation o: what the
\* address resolution did, given the cache before the request
ResolvedAsCached(o) ==
    LET v == o.volume
    IN  IF ~IsNone(addr_cache[v])
        THEN \* cached: no directory call, the cached host is used
             /\ ~o.listed
             /\ o.sent = addr_cache[v]
             /\ addr_cache'[v] \in {addr_cache[v], None}
        ELSE \* miss: one directory lookup
             /\ o.listed
             /\ LET resp == Val(o.resp)
                IN  IF resp.ok /\ RdirEntries(resp.val) # {}
                    THEN /\ o.sent = Some(FirstRdirHost(resp.val))
                         /\ addr_cache'[v] = (IF IsNone(netfailed'[v]) THEN o.sent ELSE None)
                    ELSE /\ o.sent = None
                         /\ addr_cache'[v] = None
                         /\ o.raised = Some(IF NoMatchingEntry(resp) THEN VolumeError
                                                                     ELSE resp.exc)

\* C21: the address resolution of a request for a volume whose host is cached
\* uses the cached host without asking the directory; on a miss it asks the
\* directory once and, on success, caches and uses the host of the first entry
\* of type rdir (the cache keeps it unless the request sent to it then fails on
\* the network). When the directory reports no rdir for the volume the
\* request fails with "No rdir assigned to volume", any other directory error
\* is raised unchanged, and in both cases nothing is cached for the volume.
C21_ResolveThroughCache ==
    [][(req_log' # req_log \/ addr_cache' # addr_cache) => ResolvedAsCached(Val(req_log'))]_vars

\* a miss answered by a list whose second entry is the rdir: the request went
\* to that host, which is now cached
C21_Witness ==
    /\ ~IsNone(req_log)
    /\ Val(req_log).listed
    /\ Val(Val(req_log).resp).ok
    /\ Len(Val(Val(req_log).resp).val) = 2
    /\ Val(Val(req_log).resp).val[1].type # "rdir"
    /\ Val(req_log).sent = Some(Val(Val(req_log).resp).val[2].host)
    /\ addr_cache[Val(req_log).volume] = Val(req_log).sent
    /\ IsNone(Val(req_log).raised)

\* the errors an rdir server answers a request with
HttpErrors == {a.exc : a \in {x \in HttpAnswers : ~x.ok}}

\* one request of the client for the volume of the observation o: what it did
\* to the cache
CacheKeptUnlessNetwork(o) ==
    LET v == o.volume
        network == ~IsNone(o.raised) /\ Val(o.raised).type = "OioNetworkException"
    IN  /\ \A w \in VolIds \ {v} : addr_cache'[w] = addr_cache[w]
        /\ IF IsNone(o.sent)
           THEN \* no address: no request was sent
                addr_cache'[v] = addr_cache[v]
           ELSE /\ (~IsNone(o.raised)) => Val(o.raised) \in HttpErrors
                /\ ~IsNone(addr_cache[v]) => o.sent = addr_cache[v]
                /\ addr_cache'[v] = (IF network THEN None ELSE o.sent)

\* C22: a request for a volume drops the cached address of that volume only
\* when the request sent to the rdir fails on the network; a request that
\* succeeds or fails with a status leaves the address the request used in the
\* cache and hands the answer or the error of the rdir to the caller, and the
\* cached addresses of the other volumes never change.
C22_CacheDroppedOnNetworkFailureOnly ==
    [][(req_log' # req_log \/ addr_cache' # addr_cache)
         => CacheKeptUnlessNetwork(Val(req_log'))]_vars

\* a request to the cached address of a volume failed with status 500 and the
\* address is still cached, the other volume being cached too
C22_Witness ==
    /\ ~IsNone(req_log)
    /\ ~Val(req_log).listed
    /\ Val(req_log).raised = Some(ClientError(500))
    /\ addr_cache[Val(req_log).volume] = Val(req_log).sent
    /\ \A w \in VolIds : ~IsNone(addr_cache[w])

\* the services of the batch that this call linked: no link at their lookup, an
\* rdir attached at the return of _smart_link_rdir
LinkedHere == {k \in 1..Len(lookups) : lookups[k].outcome = "notfound" /\ ~IsNone(attached[k])}

\* C23: when another dispatcher links the volume while this one is selecting
\* and the directory answers the later link write of this one with an
\* already-linked outcome, the rdir this dispatcher attaches to the volume, and
\* whose counter it increments, is the rdir the directory links the volume to.
C23_AttachedIsLinked ==
    \A k \in LinkedHere :
       /\ dirLink[lookups[k].id] = Some(Val(attached[k])[2])
       /\ LoadOf(all_rdir, Val(dirLink[lookups[k].id])) > LoadOf(cs_rdir, Val(dirLink[lookups[k].id]))

\* the rdirs that are up and whose counter has reached the cap
AtCap == {h \in Up(all_rdir) : LoadOf(all_rdir, h) >= Val(max_per_rdir)}

\* C24: in a batch run with a cap max_per_rdir of 1 or more, the pool never
\* answering with a service of the avoid-set, the counter of every rdir the
\* batch selected is at most the cap: every poll of a selection carries the
\* avoid-set, which holds every rdir that is up and whose counter has reached
\* the cap, the rdir polled is none of them, and a selection whose poll finds
\* no candidate raises that failure instead of polling without the avoid-set.
C24_CapNeverExceeded ==
    (Started /\ CapGiven) =>
      /\ \A k \in LinkedHere : LoadOf(all_rdir, Val(attached[k])[2]) <= Val(max_per_rdir)
      /\ \A h \in DOMAIN all_rdir :
            LoadOf(all_rdir, h) > LoadOf(cs_rdir, h) => LoadOf(all_rdir, h) <= Val(max_per_rdir)
      /\ (pc \in LinkPcs /\ polls # << >>) =>
            /\ IdsOf(AtCap) \subseteq avoids
            /\ \A k \in 1..Len(polls) : polls[k].avoid = Some(avoids)
            /\ ~IsNone(polled) =>
                  /\ Val(polled).id \notin avoids
                  /\ LoadOf(all_rdir, Val(polled).addr) < Val(max_per_rdir)
            /\ IsRejection(polls[Len(polls)].answer, StatusNoCandidate) =>
                  /\ pc = "link_end"
                  /\ link_out = Some(Raise(polls[Len(polls)].answer.exc))

\* a cap is given and every rdir that is up has reached it, one of them by the
\* first link of the batch: the selection for the second service polled with
\* all of them avoided, found no candidate and raised
C24_Witness ==
    /\ CapGiven
    /\ LinkedHere = {1}
    /\ LoadOf(all_rdir, Val(attached[1])[2]) = Val(max_per_rdir)
    /\ Up(all_rdir) = RdirHosts
    /\ AtCap = Up(all_rdir)
    /\ pc = "link_end"
    /\ Len(polls) = 1
    /\ polls[1].avoid = Some(IdsOf(Up(all_rdir)))
    /\ IsRejection(polls[1].answer, StatusNoCandidate)
    /\ ~Val(link_out).ok

====
